---------------------------- MODULE Spec2Model ----------------------------
(***************************************************************************)
(* A model of the virtual dependency engine of extended-mypy-django-plugin *)
(* and of the plugin code that consumes it.                                *)
(*                                                                         *)
(* Every Python str is modelled as the tuple of its bytes (all strings of  *)
(* the model are ASCII), so that concatenation, formatting, hashing and    *)
(* sorting are computed the way Python computes them.  Str gives the bytes *)
(* of the string literals that occur in the sources.                       *)
(***************************************************************************)
EXTENDS Integers, Sequences, FiniteSets, TLC

(***************************************************************************)
(* String literals of the sources, as bytes.                               *)
(***************************************************************************)
Str(s) ==
  CASE s = "M1" ->
       <<77, 49>>
    [] s = "M2" ->
       <<77, 50>>
    [] s = "__virtual__.M1" ->
       <<95, 95, 118, 105, 114, 116, 117, 97, 108, 95, 95, 46, 77, 49>>
    [] s = "__virtual__.M2" ->
       <<95, 95, 118, 105, 114, 116, 117, 97, 108, 95, 95, 46, 77, 50>>
    [] s = "__virtual__" ->
       <<95, 95, 118, 105, 114, 116, 117, 97, 108, 95, 95>>
    [] s = "." ->
       <<46>>
    [] s = "mod_" ->
       <<109, 111, 100, 95>>
    [] s = "CONTENT__" ->
       <<67, 79, 78, 84, 69, 78, 84, 95, 95>>
    [] s = "SUMMARY__" ->
       <<83, 85, 77, 77, 65, 82, 89, 95, 95>>
    [] s = "__significant__" ->
       <<95, 95, 115, 105, 103, 110, 105, 102, 105, 99, 97, 110, 116, 95, 95>>
    [] s = "__" ->
       <<95, 95>>
    [] s = "__hashed_installed_apps__" ->
       <<95, 95, 104, 97, 115, 104, 101, 100, 95, 105, 110, 115, 116, 97, 108, 108, 101, 100, 95, 97, 112, 112, 115, 95, 95>>
    [] s = "__differentiated__" ->
       <<95, 95, 100, 105, 102, 102, 101, 114, 101, 110, 116, 105, 97, 116, 101, 100, 95, 95>>
    [] s = "__hashed_other_apps__" ->
       <<95, 95, 104, 97, 115, 104, 101, 100, 95, 111, 116, 104, 101, 114, 95, 97, 112, 112, 115, 95, 95>>
    [] s = "__differentiated_again__" ->
       <<95, 95, 100, 105, 102, 102, 101, 114, 101, 110, 116, 105, 97, 116, 101, 100, 95, 97, 103, 97, 105, 110, 95, 95>>
    [] s = "__significant__django.contrib.admin.models__" ->
       <<95, 95, 115, 105, 103, 110, 105, 102, 105, 99, 97, 110, 116, 95, 95, 100, 106, 97, 110, 103, 111, 46, 99, 111, 110, 116, 114, 105, 98, 46, 97, 100, 109, 105, 110, 46, 109, 111, 100, 101, 108, 115, 95, 95>>
    [] s = "django.contrib.admin.models" ->
       <<100, 106, 97, 110, 103, 111, 46, 99, 111, 110, 116, 114, 105, 98, 46, 97, 100, 109, 105, 110, 46, 109, 111, 100, 101, 108, 115>>
    [] s = "django.contrib.auth.base_user" ->
       <<100, 106, 97, 110, 103, 111, 46, 99, 111, 110, 116, 114, 105, 98, 46, 97, 117, 116, 104, 46, 98, 97, 115, 101, 95, 117, 115, 101, 114>>
    [] s = "django.contrib.auth.models" ->
       <<100, 106, 97, 110, 103, 111, 46, 99, 111, 110, 116, 114, 105, 98, 46, 97, 117, 116, 104, 46, 109, 111, 100, 101, 108, 115>>
    [] s = "django.contrib.contenttypes.models" ->
       <<100, 106, 97, 110, 103, 111, 46, 99, 111, 110, 116, 114, 105, 98, 46, 99, 111, 110, 116, 101, 110, 116, 116, 121, 112, 101, 115, 46, 109, 111, 100, 101, 108, 115>>
    [] s = "django.contrib.sessions.base_session" ->
       <<100, 106, 97, 110, 103, 111, 46, 99, 111, 110, 116, 114, 105, 98, 46, 115, 101, 115, 115, 105, 111, 110, 115, 46, 98, 97, 115, 101, 95, 115, 101, 115, 115, 105, 111, 110>>
    [] s = "django.contrib.sessions.models" ->
       <<100, 106, 97, 110, 103, 111, 46, 99, 111, 110, 116, 114, 105, 98, 46, 115, 101, 115, 115, 105, 111, 110, 115, 46, 109, 111, 100, 101, 108, 115>>
    [] s = "djangoexample.exampleapp.models" ->
       <<100, 106, 97, 110, 103, 111, 101, 120, 97, 109, 112, 108, 101, 46, 101, 120, 97, 109, 112, 108, 101, 97, 112, 112, 46, 109, 111, 100, 101, 108, 115>>
    [] s = "djangoexample.exampleapp2.models" ->
       <<100, 106, 97, 110, 103, 111, 101, 120, 97, 109, 112, 108, 101, 46, 101, 120, 97, 109, 112, 108, 101, 97, 112, 112, 50, 46, 109, 111, 100, 101, 108, 115>>
    [] s = "djangoexample.only_abstract.models" ->
       <<100, 106, 97, 110, 103, 111, 101, 120, 97, 109, 112, 108, 101, 46, 111, 110, 108, 121, 95, 97, 98, 115, 116, 114, 97, 99, 116, 46, 109, 111, 100, 101, 108, 115>>
    [] s = "djangoexample.relations1.models" ->
       <<100, 106, 97, 110, 103, 111, 101, 120, 97, 109, 112, 108, 101, 46, 114, 101, 108, 97, 116, 105, 111, 110, 115, 49, 46, 109, 111, 100, 101, 108, 115>>
    [] s = "djangoexample.relations2.models" ->
       <<100, 106, 97, 110, 103, 111, 101, 120, 97, 109, 112, 108, 101, 46, 114, 101, 108, 97, 116, 105, 111, 110, 115, 50, 46, 109, 111, 100, 101, 108, 115>>
    [] s = "djangoexample.empty_models.models" ->
       <<100, 106, 97, 110, 103, 111, 101, 120, 97, 109, 112, 108, 101, 46, 101, 109, 112, 116, 121, 95, 109, 111, 100, 101, 108, 115, 46, 109, 111, 100, 101, 108, 115>>
    [] s = "__virtual__.mod_2456226428" ->
       <<95, 95, 118, 105, 114, 116, 117, 97, 108, 95, 95, 46, 109, 111, 100, 95, 50, 52, 53, 54, 50, 50, 54, 52, 50, 56>>
    [] s = "__virtual__.mod_2833058650" ->
       <<95, 95, 118, 105, 114, 116, 117, 97, 108, 95, 95, 46, 109, 111, 100, 95, 50, 56, 51, 51, 48, 53, 56, 54, 53, 48>>
    [] s = "__virtual__.mod_2289830437" ->
       <<95, 95, 118, 105, 114, 116, 117, 97, 108, 95, 95, 46, 109, 111, 100, 95, 50, 50, 56, 57, 56, 51, 48, 52, 51, 55>>
    [] s = "__virtual__.mod_3961720227" ->
       <<95, 95, 118, 105, 114, 116, 117, 97, 108, 95, 95, 46, 109, 111, 100, 95, 51, 57, 54, 49, 55, 50, 48, 50, 50, 55>>
    [] s = "__virtual__.mod_113708644" ->
       <<95, 95, 118, 105, 114, 116, 117, 97, 108, 95, 95, 46, 109, 111, 100, 95, 49, 49, 51, 55, 48, 56, 54, 52, 52>>
    [] s = "__virtual__.mod_3074165738" ->
       <<95, 95, 118, 105, 114, 116, 117, 97, 108, 95, 95, 46, 109, 111, 100, 95, 51, 48, 55, 52, 49, 54, 53, 55, 51, 56>>
    [] s = "__virtual__.mod_3347844205" ->
       <<95, 95, 118, 105, 114, 116, 117, 97, 108, 95, 95, 46, 109, 111, 100, 95, 51, 51, 52, 55, 56, 52, 52, 50, 48, 53>>
    [] s = "__virtual__.mod_3537308831" ->
       <<95, 95, 118, 105, 114, 116, 117, 97, 108, 95, 95, 46, 109, 111, 100, 95, 51, 53, 51, 55, 51, 48, 56, 56, 51, 49>>
    [] s = "__virtual__.mod_4035906997" ->
       <<95, 95, 118, 105, 114, 116, 117, 97, 108, 95, 95, 46, 109, 111, 100, 95, 52, 48, 51, 53, 57, 48, 54, 57, 57, 55>>
    [] s = "__virtual__.mod_3327724610" ->
       <<95, 95, 118, 105, 114, 116, 117, 97, 108, 95, 95, 46, 109, 111, 100, 95, 51, 51, 50, 55, 55, 50, 52, 54, 49, 48>>
    [] s = "__virtual__.mod_3328248899" ->
       <<95, 95, 118, 105, 114, 116, 117, 97, 108, 95, 95, 46, 109, 111, 100, 95, 51, 51, 50, 56, 50, 52, 56, 56, 57, 57>>
    [] s = "__virtual__.mod_3808300370" ->
       <<95, 95, 118, 105, 114, 116, 117, 97, 108, 95, 95, 46, 109, 111, 100, 95, 51, 56, 48, 56, 51, 48, 48, 51, 55, 48>>
    [] s = ".Parent" ->
       <<46, 80, 97, 114, 101, 110, 116>>
    [] s = ".Parent2" ->
       <<46, 80, 97, 114, 101, 110, 116, 50>>
    [] s = ".Child1" ->
       <<46, 67, 104, 105, 108, 100, 49>>
    [] s = ".Child3" ->
       <<46, 67, 104, 105, 108, 100, 51>>
    [] s = ".ChildOther" ->
       <<46, 67, 104, 105, 108, 100, 79, 116, 104, 101, 114>>
    [] s = ".AnAbstract" ->
       <<46, 65, 110, 65, 98, 115, 116, 114, 97, 99, 116>>
    [] s = ".Concrete1" ->
       <<46, 67, 111, 110, 99, 114, 101, 116, 101, 49>>
    [] s = ".Thing" ->
       <<46, 84, 104, 105, 110, 103>>

(***************************************************************************)
(* Python's str(int) for a natural number: decimal digits, no padding.     *)
(***************************************************************************)
RECURSIVE Decimal(_)
Decimal(n) ==
  IF n < 10 THEN <<48 + n>> ELSE Decimal(n \div 10) \o <<48 + (n % 10)>>

(***************************************************************************)
(* zlib.adler32 over one chunk, started from 1: the two 16 bit sums        *)
(* <<a, b>>, both modulo 65521.  The checksum is b * 65536 + a.            *)
(***************************************************************************)
RECURSIVE adler32_sums(_, _, _, _)
adler32_sums(chunk, i, a, b) ==
  IF i > Len(chunk) THEN <<a, b>>
  ELSE LET a2 == (a + chunk[i]) % 65521
           b2 == (b + a2) % 65521
       IN  adler32_sums(chunk, i + 1, a2, b2)

(***************************************************************************)
(* A variant that starts the running sum a at 0 instead of 1.              *)
(***************************************************************************)
adler32_hash_from_zero(chunk) ==
  LET ab   == adler32_sums(chunk, 1, 0, 0)
      low  == ab[2] * 36 + ab[1]
      high == ab[2] * 655 + (low \div 100)
  IN  IF high = 0 THEN Decimal(low)
      ELSE Decimal(high) \o <<48 + ((low % 100) \div 10), 48 + (low % 10)>>

(***************************************************************************)
(* adler32_hash(chunk) = str(zlib.adler32(chunk, 1)).  The checksum is an  *)
(* unsigned 32 bit number; it is written here as high * 100 + low2, with   *)
(* b * 65536 + a = (b * 655) * 100 + (b * 36 + a), so that no intermediate *)
(* value exceeds 31 bits.                                                  *)
(***************************************************************************)
adler32_hash(chunk) ==
  LET ab   == adler32_sums(chunk, 1, 1, 0)
      low  == ab[2] * 36 + ab[1]
      high == ab[2] * 655 + (low \div 100)
  IN  IF high = 0 THEN Decimal(low)
      ELSE Decimal(high) \o <<48 + ((low % 100) \div 10), 48 + (low % 10)>>

\* The hasher the namer is built with.
hasher(chunk) == adler32_hash(chunk)

(***************************************************************************)
(* VirtualDependencyNamer(namespace, hasher)(module):                      *)
(*   f"{namespace}.mod_{hasher(module.encode())}"                          *)
(***************************************************************************)
VirtualDependencyNamer(namespace, module) ==
  namespace \o Str(".") \o Str("mod_") \o hasher(module)

(***************************************************************************)
(* The namer of the generator test with the namespace misspelt.            *)
(***************************************************************************)
virtual_dependency_namer_other_namespace(module) ==
  VirtualDependencyNamer(Str("__"), module)

(***************************************************************************)
(* The namer the generator test builds: namespace "__virtual__" and the    *)
(* adler32 hasher.                                                         *)
(***************************************************************************)
virtual_dependency_namer(module) ==
  VirtualDependencyNamer(Str("__virtual__"), module)

(***************************************************************************)
(* Python's order of two str values (code point by code point).            *)
(***************************************************************************)
LexLess(x, y) ==
  LET n    == IF Len(x) < Len(y) THEN Len(x) ELSE Len(y)
      diff == {i \in 1..n : x[i] # y[i]}
  IN  IF diff = {} THEN Len(x) < Len(y)
      ELSE LET first == CHOOSE i \in diff : \A j \in diff : i <= j
           IN  x[first] < y[first]

(***************************************************************************)
(* sorted(S) for a set S of str.                                           *)
(***************************************************************************)
\* The item put first, whatever the list holds.
SortedInsert_front(seq, x) == <<x>> \o seq

\* seq is sorted: x is put after the items that are smaller than it.
SortedInsert(seq, x) ==
  LET k == Cardinality({i \in 1..Len(seq) : LexLess(seq[i], x)})
  IN  SubSeq(seq, 1, k) \o <<x>> \o SubSeq(seq, k + 1, Len(seq))

RECURSIVE Sorted(_)
Sorted(S) ==
  IF S = {} THEN <<>>
  ELSE LET x == CHOOSE y \in S : TRUE
       IN  SortedInsert(Sorted(S \ {x}), x)

Range(seq) == {seq[i] : i \in 1..Len(seq)}

(***************************************************************************)
(* Python dicts keep insertion order: a dict is modelled as a sequence of  *)
(* [key, value] items with pairwise different keys.                        *)
(***************************************************************************)
DictKeys(d) == {d[i].key : i \in 1..Len(d)}

DictGet(d, k) == (CHOOSE i \in 1..Len(d) : d[i].key = k)

DictValue(d, k) == d[DictGet(d, k)].value

\* d[k] = v
DictSet(d, k, v) ==
  IF k \in DictKeys(d)
    THEN [d EXCEPT ![DictGet(d, k)] = [key |-> k, value |-> v]]
    ELSE Append(d, [key |-> k, value |-> v])

(***************************************************************************)
(* The example project of the generator test, as discovery reports it.     *)
(* A model is identified by its import path; parents are its abstract      *)
(* bases, related the models its fields point at or are pointed at from.   *)
(***************************************************************************)
exampleapp == Str("djangoexample.exampleapp.models")
exampleapp2 == Str("djangoexample.exampleapp2.models")
only_abstract == Str("djangoexample.only_abstract.models")
empty_models == Str("djangoexample.empty_models.models")
relations1 == Str("djangoexample.relations1.models")
relations2 == Str("djangoexample.relations2.models")

ExampleModules ==
  <<exampleapp, exampleapp2, only_abstract, relations1, relations2, empty_models>>

Model(module, name, is_abstract, parents, related) ==
  [import_path |-> module \o name, module_import_path |-> module,
   is_abstract |-> is_abstract, parents |-> parents, related |-> related]

ExampleModels ==
  { Model(exampleapp, Str(".Parent"), TRUE, {}, {}),
    Model(exampleapp, Str(".Parent2"), TRUE, {exampleapp \o Str(".Parent")}, {}),
    Model(exampleapp, Str(".Child1"), FALSE, {exampleapp \o Str(".Parent")}, {}),
    Model(exampleapp, Str(".Child3"), FALSE, {exampleapp \o Str(".Parent2")}, {}),
    Model(exampleapp2, Str(".ChildOther"), FALSE, {exampleapp \o Str(".Parent")}, {}),
    Model(only_abstract, Str(".AnAbstract"), TRUE, {}, {}),
    Model(relations1, Str(".Concrete1"), FALSE, {},
          {relations2 \o Str(".Thing")}),
    Model(relations2, Str(".Thing"), FALSE, {},
          {relations1 \o Str(".Concrete1")}) }

(***************************************************************************)
(* The virtual_dependency_name the generator test expects for a module.    *)
(***************************************************************************)
expected_virtual_dependency_name ==
  (exampleapp :> Str("__virtual__.mod_3347844205"))
  @@ (exampleapp2 :> Str("__virtual__.mod_3537308831"))
  @@ (only_abstract :> Str("__virtual__.mod_4035906997"))
  @@ (relations1 :> Str("__virtual__.mod_3327724610"))
  @@ (relations2 :> Str("__virtual__.mod_3328248899"))
  @@ (empty_models :> Str("__virtual__.mod_3808300370"))
  @@ (Str("django.contrib.admin.models") :> Str("__virtual__.mod_2456226428"))
  @@ (Str("django.contrib.auth.base_user") :> Str("__virtual__.mod_2833058650"))
  @@ (Str("django.contrib.auth.models") :> Str("__virtual__.mod_2289830437"))
  @@ (Str("django.contrib.contenttypes.models") :> Str("__virtual__.mod_3961720227"))
  @@ (Str("django.contrib.sessions.base_session") :> Str("__virtual__.mod_113708644"))
  @@ (Str("django.contrib.sessions.models") :> Str("__virtual__.mod_3074165738"))

ModelAt(models, path) == CHOOSE m \in models : m.import_path = path

\* The abstract ancestors of a model, to any depth.
RECURSIVE Ancestors(_, _)
Ancestors(models, path) ==
  LET direct == ModelAt(models, path).parents
  IN  direct \cup UNION {Ancestors(models, p) : p \in direct}

\* Discovery's index without the filter on the installed modules.
ConcreteModelsOf_unfiltered(models, installed, path) ==
  Sorted({ m.import_path : m \in
           { c \in models :
               /\ ~c.is_abstract
               /\ (c.import_path = path
                   \/ path \in Ancestors(models, c.import_path)) } })

(***************************************************************************)
(* Discovery's index: for a model, the sorted concrete models that are the *)
(* model itself or descend from it, kept when their module is installed.   *)
(* The closure is taken over the whole graph and filtered afterwards.      *)
(***************************************************************************)
ConcreteModelsOf(models, installed, path) ==
  Sorted({ m.import_path : m \in
           { c \in models :
               /\ ~c.is_abstract
               /\ c.module_import_path \in installed
               /\ (c.import_path = path
                   \/ path \in Ancestors(models, c.import_path)) } })

Module(import_path, installed, models) ==
  [installed |-> installed, import_path |-> import_path,
   defined_models |->
     {m.import_path : m \in {x \in models : x.module_import_path = import_path}}]

(***************************************************************************)
(* The Discovered project for a set of installed modules.                  *)
(***************************************************************************)
Discover(installed) ==
  [installed_models_modules |->
     [i \in 1..Len(ExampleModules) |->
        [key |-> ExampleModules[i],
         value |-> Module(ExampleModules[i], ExampleModules[i] \in installed,
                          ExampleModels)]],
   all_models |-> ExampleModels,
   concrete_models |->
     [p \in {m.import_path : m \in ExampleModels} |->
        ConcreteModelsOf(ExampleModels, installed, p)]]

(***************************************************************************)
(* CustomVirtualDependency.find_significant_info_from_module of the test:  *)
(*   yield f"__significant__{module.import_path}__"                        *)
(***************************************************************************)
find_significant_info_from_module(discovered_project, module, concrete_models) ==
  << Str("__significant__") \o module.import_path \o Str("__") >>

\* VirtualDependency.create keeping only the models with a non-empty list.
VirtualDependency_create_non_empty(discovered_project, module, installed_apps_hash, make_differentiator) ==
  LET concrete_models ==
        [p \in {q \in module.defined_models :
                   discovered_project.concrete_models[q] # <<>>}
           |-> discovered_project.concrete_models[p]]
      related ==
        module.defined_models \cup
        UNION {ModelAt(discovered_project.all_models, p).related :
                 p \in module.defined_models}
  IN  [module |-> module,
       interface_differentiator |-> make_differentiator,
       summary |->
         [virtual_dependency_name |-> virtual_dependency_namer(module.import_path),
          module_import_path |-> module.import_path,
          installed_apps_hash |-> installed_apps_hash,
          significant_info |->
            find_significant_info_from_module(discovered_project, module,
                                              concrete_models)],
       all_related_models |-> Sorted(related),
       concrete_models |-> concrete_models]

\* VirtualDependency.create with a key for every related model.
VirtualDependency_create_related_keys(discovered_project, module, installed_apps_hash, make_differentiator) ==
  LET concrete_models ==
        [p \in module.defined_models \cup
                 UNION {ModelAt(discovered_project.all_models, q).related :
                          q \in module.defined_models}
           |-> discovered_project.concrete_models[p]]
      related ==
        module.defined_models \cup
        UNION {ModelAt(discovered_project.all_models, p).related :
                 p \in module.defined_models}
  IN  [module |-> module,
       interface_differentiator |-> make_differentiator,
       summary |->
         [virtual_dependency_name |-> virtual_dependency_namer(module.import_path),
          module_import_path |-> module.import_path,
          installed_apps_hash |-> installed_apps_hash,
          significant_info |->
            find_significant_info_from_module(discovered_project, module,
                                              concrete_models)],
       all_related_models |-> Sorted(related),
       concrete_models |-> concrete_models]

\* VirtualDependency.create leaving out the models that fields relate to.
VirtualDependency_create_defined_only(discovered_project, module, installed_apps_hash, make_differentiator) ==
  LET concrete_models ==
        [p \in module.defined_models |-> discovered_project.concrete_models[p]]
  IN  [module |-> module,
       interface_differentiator |-> make_differentiator,
       summary |->
         [virtual_dependency_name |-> virtual_dependency_namer(module.import_path),
          module_import_path |-> module.import_path,
          installed_apps_hash |-> installed_apps_hash,
          significant_info |->
            find_significant_info_from_module(discovered_project, module,
                                              concrete_models)],
       all_related_models |-> Sorted(module.defined_models),
       concrete_models |-> concrete_models]

\* VirtualDependency.create taking the related models of the whole project.
VirtualDependency_create_all_related(discovered_project, module, installed_apps_hash, make_differentiator) ==
  LET concrete_models ==
        [p \in module.defined_models |-> discovered_project.concrete_models[p]]
      related == {m.import_path : m \in discovered_project.all_models}
  IN  [module |-> module,
       interface_differentiator |-> make_differentiator,
       summary |->
         [virtual_dependency_name |-> virtual_dependency_namer(module.import_path),
          module_import_path |-> module.import_path,
          installed_apps_hash |-> installed_apps_hash,
          significant_info |->
            find_significant_info_from_module(discovered_project, module,
                                              concrete_models)],
       all_related_models |-> Sorted(related),
       concrete_models |-> concrete_models]

(***************************************************************************)
(* VirtualDependency.create: the record of one module.                     *)
(***************************************************************************)
VirtualDependency_create(discovered_project, module, installed_apps_hash, make_differentiator) ==
  LET concrete_models ==
        [p \in module.defined_models |-> discovered_project.concrete_models[p]]
      related ==
        module.defined_models \cup
        UNION {ModelAt(discovered_project.all_models, p).related :
                 p \in module.defined_models}
  IN  [module |-> module,
       interface_differentiator |-> make_differentiator,
       summary |->
         [virtual_dependency_name |-> virtual_dependency_namer(module.import_path),
          module_import_path |-> module.import_path,
          installed_apps_hash |-> installed_apps_hash,
          significant_info |->
            find_significant_info_from_module(discovered_project, module,
                                              concrete_models)],
       all_related_models |-> Sorted(related),
       concrete_models |-> concrete_models]

(***************************************************************************)
(* virtual_dependency_maker with the differentiator passed where the       *)
(* installed apps hash belongs.                                            *)
(***************************************************************************)
virtual_dependency_maker_swapped(installed_apps_hash, make_differentiator, discovered_project, module) ==
  VirtualDependency_create(discovered_project, module, make_differentiator,
                           make_differentiator)

\* virtual_dependency_maker that does not pass the caller's hash on.
virtual_dependency_maker_own_hash(installed_apps_hash, make_differentiator, discovered_project, module) ==
  VirtualDependency_create(discovered_project, module,
                           Str("__hashed_installed_apps__"), make_differentiator)

(***************************************************************************)
(* VirtualDependencyHandlerBase.virtual_dependency_maker: the partial of   *)
(* VirtualDependency.create that the generator calls with a project and a  *)
(* module.                                                                 *)
(***************************************************************************)
virtual_dependency_maker(installed_apps_hash, make_differentiator, discovered_project, module) ==
  VirtualDependency_create(discovered_project, module, installed_apps_hash,
                           make_differentiator)

\* The generator, leaving out the modules that define no models.
RECURSIVE VirtualDependencyGenerator_skipping(_, _, _, _)
VirtualDependencyGenerator_skipping(installed_apps_hash, make_differentiator, discovered_project, n) ==
  IF n = 0 THEN <<>>
  ELSE LET item == discovered_project.installed_models_modules[n]
           rest == VirtualDependencyGenerator_skipping(
                     installed_apps_hash, make_differentiator,
                     discovered_project, n - 1)
       IN  IF item.value.defined_models = {} THEN rest
           ELSE DictSet(rest, item.key,
                        virtual_dependency_maker(installed_apps_hash,
                          make_differentiator, discovered_project, item.value))

(***************************************************************************)
(* VirtualDependencyGenerator.__call__, over the first n modules:          *)
(*   {import_path: virtual_dependency_maker(discovered_project, module)    *)
(*    for import_path, module in installed_models_modules.items()}         *)
(***************************************************************************)
RECURSIVE VirtualDependencyGenerator(_, _, _, _)
VirtualDependencyGenerator(installed_apps_hash, make_differentiator, discovered_project, n) ==
  IF n = 0 THEN <<>>
  ELSE LET item == discovered_project.installed_models_modules[n]
       IN  DictSet(VirtualDependencyGenerator(installed_apps_hash,
                     make_differentiator, discovered_project, n - 1),
                   item.key,
                   virtual_dependency_maker(installed_apps_hash,
                     make_differentiator, discovered_project, item.value))

(***************************************************************************)
(* The engine runs.  MaxRuns bounds how many runs a behaviour holds.       *)
(***************************************************************************)
MaxRuns == 2

InstalledAppsHashes == {Str("__hashed_installed_apps__"), Str("__hashed_other_apps__")}
Differentiators == {Str("__differentiated__"), Str("__differentiated_again__")}

VARIABLES
  discovered,   \* the Discovered project the next engine run reads
  apps_hash,    \* the caller's installed apps hash
  runs,         \* the engine runs so far: their inputs and the generated map
  env_changed   \* the project or the hash changed since the last run

gen_vars == <<discovered, apps_hash, runs, env_changed>>

InstalledOf(project) ==
  {project.installed_models_modules[i].key :
     i \in {j \in 1..Len(project.installed_models_modules) :
              project.installed_models_modules[j].value.installed}}

GenInit ==
  /\ \E installed \in SUBSET Range(ExampleModules) : discovered = Discover(installed)
  /\ apps_hash = Str("__hashed_installed_apps__")
  /\ runs = <<>>
  /\ env_changed = FALSE

\* One run of the engine: the caller makes the maker and calls the generator.
Generate ==
  /\ Len(runs) < MaxRuns
  /\ \E d \in Differentiators :
       runs' = Append(runs,
         [discovered_project |-> discovered,
          installed_apps_hash |-> apps_hash,
          make_differentiator |-> d,
          generated |-> VirtualDependencyGenerator(apps_hash, d, discovered,
                          Len(discovered.installed_models_modules))])
  /\ env_changed' = FALSE
  /\ UNCHANGED <<discovered, apps_hash>>

\* Between two runs the environment may change once.
CanChange == runs # <<>> /\ Len(runs) < MaxRuns /\ ~env_changed

\* An app is added to or removed from the installed apps; discovery reruns.
ToggleInstalled ==
  /\ CanChange
  /\ \E m \in Range(ExampleModules) :
       discovered' = Discover(IF m \in InstalledOf(discovered)
                                THEN InstalledOf(discovered) \ {m}
                                ELSE InstalledOf(discovered) \cup {m})
  /\ env_changed' = TRUE
  /\ UNCHANGED <<apps_hash, runs>>

\* The caller computes a different installed apps hash.
ChangeInstalledAppsHash ==
  /\ CanChange
  /\ \E h \in InstalledAppsHashes \ {apps_hash} : apps_hash' = h
  /\ env_changed' = TRUE
  /\ UNCHANGED <<discovered, runs>>


(***************************************************************************)
(* The installer test's doubles and fixture.                               *)
(***************************************************************************)

\* Report(): a report with nothing registered.
Report == [modules |-> {}, combined |-> FALSE]

\* Report.register_module: self.modules.add((module_import_path, virtual_import_path))
register_module(report, module_import_path, virtual_import_path) ==
  [report EXCEPT !.modules = @ \cup {<<module_import_path, virtual_import_path>>}]

\* ReportCombiner.combine that stops after the first report.
ReportCombiner_combine_first(reports) ==
  IF reports = <<>> THEN [modules |-> {}, combined |-> TRUE]
  ELSE [modules |-> reports[1].modules, combined |-> TRUE]

\* ReportCombiner.combine keeping only the last report.
ReportCombiner_combine_last(reports) ==
  IF reports = <<>> THEN [modules |-> {}, combined |-> TRUE]
  ELSE [modules |-> reports[Len(reports)].modules, combined |-> TRUE]

(***************************************************************************)
(* ReportCombiner(reports).combine():                                      *)
(*   final = Report(combined=True)                                         *)
(*   for report in self.reports: final.modules |= report.modules           *)
(***************************************************************************)
RECURSIVE ReportCombiner_combine(_)
ReportCombiner_combine(reports) ==
  IF reports = <<>> THEN [modules |-> {}, combined |-> TRUE]
  ELSE LET final == ReportCombiner_combine(SubSeq(reports, 1, Len(reports) - 1))
       IN  [final EXCEPT !.modules = @ \cup reports[Len(reports)].modules]

\* The Dep of the installer test for module M with virtual name V.
Dep(M, V) ==
  [module |-> [installed |-> TRUE, import_path |-> M, defined_models |-> {}],
   interface_differentiator |-> Str("__differentiated__"),
   summary |->
     [virtual_dependency_name |-> V,
      module_import_path |-> M,
      installed_apps_hash |-> Str("__hashed_installed_apps__"),
      significant_info |-> <<Str("__significant__django.contrib.admin.models__")>>],
   all_related_models |-> <<>>,
   concrete_models |-> <<>>]

\* The items of the map the installer test installs.
TestDeps ==
  << [key |-> Str("M1"), value |-> Dep(Str("M1"), Str("__virtual__.M1"))],
     [key |-> Str("M2"), value |-> Dep(Str("M2"), Str("__virtual__.M2"))] >>

\* Every map made of items of the test's map, in every order.
TestMaps ==
  LET orders == UNION {[1..n -> 1..Len(TestDeps)] : n \in 0..Len(TestDeps)}
  IN  { [i \in 1..Len(o) |-> TestDeps[o[i]]] :
          o \in {p \in orders : \A i, j \in 1..Len(p) : p[i] = p[j] => i = j} }

VARIABLE n_calls  \* the calls of the installer begun so far

\* deploy_scribes rendering a content that tells which call rendered it.
deploy_scribes_counting(all_virtual_dependencies, i) ==
  LET virtual_dependency == all_virtual_dependencies[i].value
  IN  [content |-> Str("CONTENT__") \o virtual_dependency.summary.module_import_path
                     \o Decimal(n_calls),
       summary_hash |-> Str("SUMMARY__") \o virtual_dependency.summary.module_import_path,
       report |-> register_module(Report,
                    virtual_dependency.summary.module_import_path,
                    virtual_dependency.summary.virtual_dependency_name),
       virtual_import_path |-> virtual_dependency.summary.virtual_dependency_name]

\* deploy_scribes writing the interface differentiator into the content.
deploy_scribes_differentiated(all_virtual_dependencies, i) ==
  LET virtual_dependency == all_virtual_dependencies[i].value
  IN  [content |-> Str("CONTENT__") \o virtual_dependency.summary.module_import_path
                     \o virtual_dependency.interface_differentiator,
       summary_hash |-> Str("SUMMARY__") \o virtual_dependency.summary.module_import_path,
       report |-> register_module(Report,
                    virtual_dependency.summary.module_import_path,
                    virtual_dependency.summary.virtual_dependency_name),
       virtual_import_path |-> virtual_dependency.summary.virtual_dependency_name]

\* deploy_scribes giving the module's real path as the virtual import path.
deploy_scribes_real_path(all_virtual_dependencies, i) ==
  LET virtual_dependency == all_virtual_dependencies[i].value
  IN  [content |-> Str("CONTENT__") \o virtual_dependency.summary.module_import_path,
       summary_hash |-> Str("SUMMARY__") \o virtual_dependency.summary.module_import_path,
       report |-> register_module(Report,
                    virtual_dependency.summary.module_import_path,
                    virtual_dependency.summary.virtual_dependency_name),
       virtual_import_path |-> virtual_dependency.summary.module_import_path]

(***************************************************************************)
(* ReportFactory.deploy_scribes of the installer test: the i-th item the   *)
(* generator yields, rendered when the consumer asks for it.               *)
(***************************************************************************)
deploy_scribes(all_virtual_dependencies, i) ==
  LET virtual_dependency == all_virtual_dependencies[i].value
  IN  [content |-> Str("CONTENT__") \o virtual_dependency.summary.module_import_path,
       summary_hash |-> Str("SUMMARY__") \o virtual_dependency.summary.module_import_path,
       report |-> register_module(Report,
                    virtual_dependency.summary.module_import_path,
                    virtual_dependency.summary.virtual_dependency_name),
       virtual_import_path |-> virtual_dependency.summary.virtual_dependency_name]

\* deploy_scribes as a list: every item is rendered when it is called.
deploy_scribes_rendered_eagerly(all_virtual_dependencies, requests) ==
  [i \in 1..Len(all_virtual_dependencies) |->
     deploy_scribes(all_virtual_dependencies, i)]

(***************************************************************************)
(* What ReportFactory.deploy_scribes has rendered when its consumer has    *)
(* asked for `requests` items.  It is a generator function: calling it     *)
(* runs nothing of its body, and every request runs one turn of its loop,  *)
(* up to the yield, until the map is exhausted.                            *)
(***************************************************************************)
deploy_scribes_rendered(all_virtual_dependencies, requests) ==
  [i \in 1..(IF requests < Len(all_virtual_dependencies)
               THEN requests ELSE Len(all_virtual_dependencies)) |->
     deploy_scribes(all_virtual_dependencies, i)]

(***************************************************************************)
(* ReportInstaller.write_report of the installer test, on its dict         *)
(* `written`:                                                              *)
(*   key = (scratch_root, virtual_import_path)                             *)
(*   assert key not in written                                             *)
(*   written[key] = (content, summary_hash)                                *)
(* raised tells that the assertion failed.                                 *)
(***************************************************************************)
write_report(written_before, scratch_root, summary_hash, virtual_import_path, content) ==
  LET key == <<scratch_root, virtual_import_path>>
  IN  IF key \in DOMAIN written_before
        THEN [raised |-> TRUE, written |-> written_before]
        ELSE [raised |-> FALSE,
              written |-> written_before @@ (key :> <<content, summary_hash>>)]

\* install_reports of the test, recording its arguments the other way round.
record_install_reports_swapped(installed_before, scratch_root, destination) ==
  Append(installed_before, <<destination, scratch_root>>)

(***************************************************************************)
(* ReportInstaller.install_reports of the installer test:                  *)
(*   installed.append((scratch_root, destination))                         *)
(***************************************************************************)
record_install_reports(installed_before, scratch_root, destination) ==
  Append(installed_before, <<scratch_root, destination>>)

(***************************************************************************)
(* The files.  A tree is a function from the virtual import path of a file *)
(* to its content.  write_report puts one file into the scratch tree.      *)
(***************************************************************************)
EmptyTree == [p \in {} |-> <<>>]

WriteFile(tree, virtual_import_path, content) ==
  [p \in DOMAIN tree \cup {virtual_import_path} |->
     IF p = virtual_import_path THEN content ELSE tree[p]]

\* A publish that copies the scratch files over the destination's.
install_reports_merging(scratch_tree, destination_tree, io_ok) ==
  IF io_ok
    THEN [p \in DOMAIN destination_tree \cup DOMAIN scratch_tree |->
            IF p \in DOMAIN scratch_tree THEN scratch_tree[p] ELSE destination_tree[p]]
    ELSE destination_tree

\* A publish that leaves the files it copied behind when it fails.
install_reports_partial(scratch_tree, destination_tree, io_ok) ==
  IF io_ok
    THEN scratch_tree
    ELSE [p \in DOMAIN destination_tree \cup DOMAIN scratch_tree |->
            IF p \in DOMAIN scratch_tree THEN scratch_tree[p] ELSE destination_tree[p]]

(***************************************************************************)
(* install_reports(scratch_root, destination): the destination's content   *)
(* after the call.  The publish is one indivisible replacement of the      *)
(* destination's content by the scratch root's; a failed publish leaves    *)
(* the destination as it was.                                              *)
(***************************************************************************)
install_reports(scratch_tree, destination_tree, io_ok) ==
  IF io_ok THEN scratch_tree ELSE destination_tree

(***************************************************************************)
(* The mypy daemon over consecutive runs of one scenario, and the settings *)
(* module every run is checked with.  A setting is its name, the type it   *)
(* is annotated with and the text of its value.                            *)
(***************************************************************************)
Setting(name, type, value) == [name |-> name, type |-> type, value |-> value]

SettingUniverse ==
  { Setting("ONE", "int", "1"), Setting("ONE", "str", "1"),
    Setting("ONE", "str", "3"), Setting("TWO", "str", "2"),
    Setting("TWO", "str", "4"), Setting("TWO", "int", "2") }

\* A settings module gives a name one value.
SettingsChoices ==
  { s \in SUBSET SettingUniverse :
      \A a \in s : \A b \in s : a.name = b.name => a = b }

\* The custom settings of the runs of the test, in the order it makes them.
test_custom_settings ==
  << {},
     { Setting("ONE", "int", "1"), Setting("TWO", "str", "2") },
     { Setting("ONE", "int", "1"), Setting("TWO", "str", "2") },
     { Setting("ONE", "str", "1"), Setting("TWO", "str", "2") },
     { Setting("ONE", "str", "1"), Setting("TWO", "str", "2") },
     { Setting("ONE", "str", "3"), Setting("TWO", "str", "4") },
     { Setting("ONE", "str", "3"), Setting("TWO", "str", "4") },
     { Setting("TWO", "str", "4") },
     { Setting("TWO", "str", "4") } >>

\* What the test expects of every run: the first run starts the daemon.
test_daemon_should_restart ==
  << FALSE, TRUE, FALSE, TRUE, FALSE, FALSE, FALSE, TRUE, FALSE >>

\* What the plugin knows of the settings: every name with its type.
known_settings(settings) == { <<s.name, s.type>> : s \in settings }

\* A daemon that also takes the values for part of what it knows.
daemon_should_restart_on_values(previous, current) == previous # current

daemon_should_restart(previous, current) ==
  known_settings(previous) # known_settings(current)

Diverged == 0 - 1

\* How many runs of the test the runs so far have followed.
follow_test(followed, settings) ==
  IF /\ followed # Diverged
     /\ followed < Len(test_custom_settings)
     /\ settings = test_custom_settings[followed + 1]
    THEN followed + 1
    ELSE Diverged

\* The project a run checks: the apps the settings install and whether
\* the model Another has been appended to myapp2/models.py.
Project(installed_apps, appended) == [installed_apps |-> installed_apps, appended |-> appended]

ProjectChoices ==
  { Project(a, b) : a \in {{"myapp"}, {"myapp", "myapp2"}}, b \in BOOLEAN }

\* A scenario starts with both apps installed and the files as copied.
DefaultProject == Project({"myapp", "myapp2"}, FALSE)

\* The children of myapp.models.Parent in the order they are revealed,
\* each with the app that defines it.
ParentChildren ==
  << <<"myapp", "myapp.models.Child1">>, <<"myapp", "myapp.models.Child2">>,
     <<"myapp", "myapp.models.Child3">>, <<"myapp2", "myapp2.models.ChildOther">>,
     <<"myapp2", "myapp2.models.Another">> >>

IsDefined(project, child) == child[2] # "myapp2.models.Another" \/ project.appended

\* The concrete children of Parent the plugin knows of.
concrete_children(project) ==
  LET known(c) == IsDefined(project, c) /\ c[1] \in project.installed_apps
      kept == SelectSeq(ParentChildren, known)
  IN  [i \in 1..Len(kept) |-> kept[i][2]]

default_queryset(model) ==
  IF model = "myapp.models.Child2"
    THEN <<"myapp.models.Child2QuerySet">>
    ELSE <<"django.db.models.query.QuerySet", model, model>>

\* What a run reveals for Concrete[Parent] and DefaultQuerySet[Parent].
run_output(concrete) == [concrete |-> concrete, querysets |-> [i \in 1..Len(concrete) |-> default_queryset(concrete[i])]]

\* A plugin that knows of the installed apps only.
project_changed_apps_only(previous, current) == previous.installed_apps # current.installed_apps

\* Whether the plugin's knowledge of the project differs between two runs.
project_changed(previous, current) ==
  \/ previous.installed_apps # current.installed_apps
  \/ concrete_children(previous) # concrete_children(current)

\* test_sees_models_when_they_are_added_and_installed and
\* test_sees_new_models: the project of every run, whether the run is
\* expected to restart the daemon, and the Concrete[Parent] it reveals.
test_projects ==
  [ added_and_installed |->
      << Project({"myapp"}, FALSE), Project({"myapp", "myapp2"}, FALSE),
         Project({"myapp", "myapp2"}, FALSE) >>,
    new_models |->
      << DefaultProject, Project({"myapp", "myapp2"}, TRUE),
         Project({"myapp", "myapp2"}, TRUE) >> ]

test_project_restarts ==
  [ added_and_installed |-> << FALSE, TRUE, FALSE >>,
    new_models |-> << FALSE, TRUE, FALSE >> ]

test_revealed_concrete ==
  [ added_and_installed |->
      << <<"myapp.models.Child1", "myapp.models.Child2", "myapp.models.Child3">>,
         <<"myapp.models.Child1", "myapp.models.Child2", "myapp.models.Child3",
           "myapp2.models.ChildOther">>,
         <<"myapp.models.Child1", "myapp.models.Child2", "myapp.models.Child3",
           "myapp2.models.ChildOther">> >>,
    new_models |->
      << <<"myapp.models.Child1", "myapp.models.Child2", "myapp.models.Child3",
           "myapp2.models.ChildOther">>,
         <<"myapp.models.Child1", "myapp.models.Child2", "myapp.models.Child3",
           "myapp2.models.ChildOther", "myapp2.models.Another">>,
         <<"myapp.models.Child1", "myapp.models.Child2", "myapp.models.Child3",
           "myapp2.models.ChildOther", "myapp2.models.Another">> >> ]

\* How many runs of each of the two tests the runs so far have followed.
follow_project_tests(followed_so_far, settings, project) ==
  [ t \in DOMAIN test_projects |->
      IF /\ followed_so_far[t] # Diverged
         /\ followed_so_far[t] < Len(test_projects[t])
         /\ settings = {}
         /\ project = test_projects[t][followed_so_far[t] + 1]
        THEN followed_so_far[t] + 1
        ELSE Diverged ]

VARIABLES
  daemon_started,     \* whether the daemon has run at all
  previous_settings,  \* <<the settings of the run before the last>>, if any
  current_settings,   \* the settings of the last run
  daemon_restarted,   \* whether the last run restarted the daemon
  followed,           \* the runs of the test followed so far, or Diverged
  previous_project,   \* <<the project of the run before the last>>, if any
  current_project,    \* the project of the last run
  daemon_project,     \* the project the running daemon was started with
  output,             \* what the last run revealed
  previous_output,    \* what the run before the last revealed
  followed_projects   \* the runs of the project tests followed so far

daemon_vars ==
  <<daemon_started, previous_settings, current_settings, daemon_restarted,
    followed, previous_project, current_project, daemon_project, output,
    previous_output, followed_projects>>

DaemonInit ==
  /\ daemon_started = FALSE
  /\ previous_settings = <<>>
  /\ current_settings = {}
  /\ daemon_restarted = FALSE
  /\ followed = 0
  /\ previous_project = <<>>
  /\ current_project = DefaultProject
  /\ daemon_project = DefaultProject
  /\ output = run_output(<<>>)
  /\ previous_output = run_output(<<>>)
  /\ followed_projects = [t \in DOMAIN test_projects |-> 0]

\* The first run of a scenario starts the daemon.
StartDaemon(custom_settings, project) ==
  /\ ~daemon_started
  /\ daemon_started' = TRUE
  /\ previous_settings' = <<>>
  /\ current_settings' = custom_settings
  /\ daemon_restarted' = FALSE
  /\ followed' = IF project = DefaultProject
                   THEN follow_test(followed, custom_settings)
                   ELSE Diverged
  /\ previous_project' = <<>>
  /\ current_project' = project
  /\ daemon_project' = project
  /\ output' = run_output(concrete_children(project))
  /\ previous_output' = output
  /\ followed_projects' =
       follow_project_tests(followed_projects, custom_settings, project)

\* A later run: the daemon is restarted when what it knows has changed, and
\* a daemon that is not restarted keeps the project it was started with.
RunAndCheckMypy(custom_settings, project) ==
  /\ daemon_started
  /\ previous_settings' = <<current_settings>>
  /\ current_settings' = custom_settings
  /\ daemon_restarted' =
       \/ daemon_should_restart(current_settings, custom_settings)
       \/ project_changed(current_project, project)
  /\ followed' = IF project = DefaultProject
                   THEN follow_test(followed, custom_settings)
                   ELSE Diverged
  /\ previous_project' = <<current_project>>
  /\ current_project' = project
  /\ daemon_project' = IF daemon_restarted' THEN project ELSE daemon_project
  /\ output' = run_output(concrete_children(daemon_project'))
  /\ previous_output' = output
  /\ followed_projects' =
       follow_project_tests(followed_projects, custom_settings, project)
  /\ UNCHANGED daemon_started

(***************************************************************************)
(* mypy types, as far as the resolver tells them apart.  Every type is a   *)
(* record of a kind, a name and the types it is made of.                   *)
(***************************************************************************)
Instance(fullname) == [kind |-> "Instance", name |-> fullname, items |-> <<>>]

TypeType(item) == [kind |-> "TypeType", name |-> "", items |-> <<item>>]

UnionType(items) == [kind |-> "UnionType", name |-> "", items |-> items]

TypeVarType(fullname) == [kind |-> "TypeVarType", name |-> fullname, items |-> <<>>]

AnyType == [kind |-> "AnyType", name |-> "", items |-> <<>>]

NoneType == [kind |-> "NoneType", name |-> "", items |-> <<>>]

\* UnboundType(name, args)
UnboundType(name, args) == [kind |-> "UnboundType", name |-> name, items |-> args]

\* Python's None where a type may stand.
None == [kind |-> "None", name |-> "", items |-> <<>>]

\* No alias: the None of Mapping[str, str | None].
NoAlias == "None"

\* One call of fail: the message and what it names.
Fail(msg, about) == [msg |-> msg, about |-> about]

(***************************************************************************)
(* The symbols plugin_lookup_fully_qualified finds for the alias names.    *)
(***************************************************************************)
Symbol(kind, target) == [kind |-> kind, target |-> target]

NoSymbol == Symbol("None", None)

plugin_lookup_fully_qualified(symbols, fullname) ==
  IF fullname \in DOMAIN symbols THEN symbols[fullname] ELSE NoSymbol

\* What a generator gave before it ended, and the exception that ended it.
Yielded(items, exception) == [yielded |-> items, raised |-> exception]

\* lookup_alias, the loop over target.items: assert isinstance(found, Instance)
RECURSIVE lookup_alias_items(_)
lookup_alias_items(items) ==
  IF items = <<>>
    THEN Yielded(<<>>, "none")
    ELSE IF Head(items).kind # "Instance"
      THEN Yielded(<<>>, "AssertionError")
      ELSE LET rest == lookup_alias_items(Tail(items))
           IN  Yielded(<<Head(items)>> \o rest.yielded, rest.raised)

lookup_alias(symbols, alias) ==
  LET sym == plugin_lookup_fully_qualified(symbols, alias)
  IN  IF sym.kind = "PlaceholderNode"
        THEN Yielded(<<>>, "ShouldDefer")
        ELSE IF sym.kind # "TypeAlias"
          THEN Yielded(<<>>, "AssertionError")
          ELSE IF sym.target.kind = "Instance"
            THEN Yielded(<<sym.target>>, "none")
            ELSE IF sym.target.kind = "UnionType"
              THEN lookup_alias_items(sym.target.items)
              ELSE Yielded(<<>>, "AssertionError")

(***************************************************************************)
(* The report's lookups: the aliases of a report are a dict from the       *)
(* import path of a model to the name of its alias.                        *)
(***************************************************************************)
\* A lookup that leaves out the models it has no alias for.
RECURSIVE get_aliases_found_only(_, _)
get_aliases_found_only(aliases, models) ==
  IF models = <<>>
    THEN <<>>
    ELSE LET before == get_aliases_found_only(aliases, SubSeq(models, 1, Len(models) - 1))
             model == models[Len(models)]
         IN  IF model \in DictKeys(aliases)
               THEN DictSet(before, model, DictValue(aliases, model))
               ELSE before

RECURSIVE get_aliases(_, _)
get_aliases(aliases, models) ==
  IF models = <<>>
    THEN <<>>
    ELSE LET before == get_aliases(aliases, SubSeq(models, 1, Len(models) - 1))
             model == models[Len(models)]
         IN  DictSet(before, model,
                     IF model \in DictKeys(aliases)
                       THEN DictValue(aliases, model)
                       ELSE NoAlias)

\* Report.get_concrete_aliases(*models)
get_concrete_aliases(report, models) == get_aliases(report.concrete_aliases, models)

\* Report.get_queryset_aliases(*models)
get_queryset_aliases(report, models) == get_aliases(report.queryset_aliases, models)

(***************************************************************************)
(* AnnotationResolver.  A resolver is the symbols, the report, the kind of *)
(* api of its ctx ("sem" or "checker"), the analyzer's final_iteration and *)
(* whether lookup_info finds the annotation.  A call gives what it         *)
(* returned, the calls of fail it made, whether it called sem_api.defer()  *)
(* and the exception that left it.                                         *)
(***************************************************************************)
Resolver(symbols, report, api, final_iteration, has_info) == [symbols |-> symbols, report |-> report, api |-> api, final_iteration |-> final_iteration, has_info |-> has_info]

Returned(value, fails, deferred, exception) == [value |-> value, fails |-> fails, deferred |-> deferred, raised |-> exception]

\* sem_defer, and lambda: True of the type checker's contexts
defer(resolver) ==
  IF resolver.api = "sem"
    THEN IF resolver.final_iteration
           THEN [returned |-> TRUE, deferred |-> FALSE]
           ELSE [returned |-> FALSE, deferred |-> TRUE]
    ELSE [returned |-> TRUE, deferred |-> FALSE]

\* get_aliases(*models) of _instances_from_aliases
aliases_for(resolver, getter, models) ==
  IF getter = "get_concrete_aliases"
    THEN get_concrete_aliases(resolver.report, models)
    ELSE get_queryset_aliases(resolver.report, models)

Streamed(items, fails, exception) == [yielded |-> items, fails |-> fails, raised |-> exception]

\* An _instances_from_aliases whose try is around the whole loop.
RECURSIVE instances_from_items_stopping(_, _)
instances_from_items_stopping(resolver, items) ==
  IF items = <<>>
    THEN Streamed(<<>>, <<>>, "none")
    ELSE LET model == Head(items).key
             alias == Head(items).value
             rest == instances_from_items_stopping(resolver, Tail(items))
         IN  IF alias = NoAlias
               THEN Streamed(rest.yielded,
                             <<Fail("Failed to find concrete alias instance for", <<model>>)>> \o rest.fails,
                             rest.raised)
               ELSE LET found == lookup_alias(resolver.symbols, alias)
                    IN  IF found.raised = "ShouldDefer"
                          THEN Streamed(found.yielded, <<>>, "ShouldDefer")
                          ELSE IF found.raised = "AssertionError"
                            THEN Streamed(found.yielded,
                                          <<Fail("Failed to create concrete alias instance for", <<model, alias>>)>>,
                                          "none")
                            ELSE Streamed(found.yielded \o rest.yielded, rest.fails, rest.raised)

\* The loop of _instances_from_aliases over the items of the mapping.
RECURSIVE instances_from_items(_, _)
instances_from_items(resolver, items) ==
  IF items = <<>>
    THEN Streamed(<<>>, <<>>, "none")
    ELSE LET model == Head(items).key
             alias == Head(items).value
             rest == instances_from_items(resolver, Tail(items))
         IN  IF alias = NoAlias
               THEN Streamed(rest.yielded,
                             <<Fail("Failed to find concrete alias instance for", <<model>>)>> \o rest.fails,
                             rest.raised)
               ELSE LET found == lookup_alias(resolver.symbols, alias)
                    IN  IF found.raised = "ShouldDefer"
                          THEN Streamed(found.yielded, <<>>, "ShouldDefer")
                          ELSE IF found.raised = "AssertionError"
                            THEN Streamed(found.yielded \o rest.yielded,
                                          <<Fail("Failed to create concrete alias instance for", <<model, alias>>)>> \o rest.fails,
                                          rest.raised)
                            ELSE Streamed(found.yielded \o rest.yielded, rest.fails, rest.raised)

_instances_from_aliases(resolver, getter, models) == instances_from_items(resolver, aliases_for(resolver, getter, models))

\* _flatten_union: recursively flatten a union
RECURSIVE _flatten_union(_)
RECURSIVE flatten_items(_)
flatten_items(items) ==
  IF items = <<>> THEN <<>> ELSE _flatten_union(Head(items)) \o flatten_items(Tail(items))

_flatten_union(typ) ==
  IF typ.kind = "UnionType" THEN flatten_items(typ.items) ELSE <<typ>>

\* A _make_union that wraps one instance in a union as well.
_make_union_always(is_type, instances) ==
  UnionType([i \in 1..Len(instances) |->
               IF is_type /\ instances[i].kind # "TypeType"
                 THEN TypeType(instances[i])
                 ELSE instances[i]])

_make_union(is_type, instances) ==
  LET items == [i \in 1..Len(instances) |->
                  IF is_type /\ instances[i].kind # "TypeType"
                    THEN TypeType(instances[i])
                    ELSE instances[i]]
  IN  IF Len(items) = 1 THEN items[1] ELSE UnionType(items)

\* The fails of _concrete_for for the items that are not instances.
RECURSIVE not_instance_fails(_)
not_instance_fails(all_types) ==
  IF all_types = <<>>
    THEN <<>>
    ELSE (IF Head(all_types).kind # "Instance"
            THEN <<Fail("Expected to operate on specific classes, got a", <<Head(all_types).kind>>)>>
            ELSE <<>>) \o not_instance_fails(Tail(all_types))

\* for item in all_instances: concrete.extend(list(self._instances_from_aliases(...)))
RECURSIVE concrete_of_instances(_, _, _)
concrete_of_instances(resolver, getter, all_instances) ==
  IF all_instances = <<>>
    THEN Streamed(<<>>, <<>>, "none")
    ELSE LET first == _instances_from_aliases(resolver, getter, <<Head(all_instances).name>>)
             rest == concrete_of_instances(resolver, getter, Tail(all_instances))
         IN  IF first.raised # "none"
               THEN Streamed(<<>>, first.fails, first.raised)
               ELSE Streamed(first.yielded \o rest.yielded, first.fails \o rest.fails, rest.raised)

FullNames(all_instances) == [i \in 1..Len(all_instances) |-> all_instances[i].name]

\* The end of _concrete_for: `if not concrete` and the union of what was
\* found; deferring is what self._defer() does and returns.
concrete_or_none(is_type, names, concrete, deferring) ==
  IF concrete.raised # "none"
    THEN Returned(None, concrete.fails, FALSE, concrete.raised)
    ELSE IF concrete.yielded = <<>>
      THEN IF ~deferring.returned
             THEN Returned(None,
                           concrete.fails \o <<Fail("No concrete models found for", names)>>,
                           deferring.deferred, "none")
             ELSE Returned(None, concrete.fails, deferring.deferred, "none")
      ELSE Returned(_make_union(is_type, concrete.yielded), concrete.fails, FALSE, "none")

_concrete_for(resolver, model_type, getter) ==
  LET is_type == model_type.kind = "TypeType"
      found == IF is_type THEN model_type.items[1] ELSE model_type
  IN  IF found.kind = "AnyType"
        THEN Returned(None, <<Fail("Tried to use concrete annotations on a typing.Any", <<>>)>>, FALSE, "none")
        ELSE IF found.kind \notin {"Instance", "UnionType"}
          THEN Returned(None, <<>>, FALSE, "none")
          ELSE LET all_types == _flatten_union(found)
                   not_instances == not_instance_fails(all_types)
               IN  IF not_instances # <<>>
                     THEN Returned(None, not_instances, FALSE, "none")
                     ELSE concrete_or_none(is_type, FullNames(all_types),
                                           concrete_of_instances(resolver, getter, all_types),
                                           defer(resolver))

\* AnnotationResolver.resolve
resolve(resolver, annotation, model_type) ==
  IF annotation = "CONCRETE"
    THEN _concrete_for(resolver, model_type, "get_concrete_aliases")
    ELSE _concrete_for(resolver, model_type, "get_queryset_aliases")

TypeVarExpr(name, fullname, values) == [name |-> name, fullname |-> fullname, values |-> values]

\* A type_var_expr_for that keeps what was yielded before the placeholder.
type_var_expr_for_keeping(resolver, model, name, fullname) ==
  LET values == _instances_from_aliases(resolver, "get_concrete_aliases", <<model>>)
  IN  [value |-> TypeVarExpr(name, fullname, values.yielded),
       fails |-> values.fails \o
                 (IF values.yielded = <<>>
                    THEN <<Fail("No concrete children found for", <<model>>)>>
                    ELSE <<>>),
       deferred |-> FALSE, raised |-> "none"]

type_var_expr_for(resolver, model, name, fullname) ==
  LET values == _instances_from_aliases(resolver, "get_concrete_aliases", <<model>>)
  IN  IF values.raised = "ShouldDefer"
        THEN [value |-> TypeVarExpr(name, fullname, <<>>), fails |-> values.fails,
              deferred |-> FALSE, raised |-> "none"]
        ELSE [value |-> TypeVarExpr(name, fullname, values.yielded),
              fails |-> values.fails \o
                        (IF values.yielded = <<>>
                           THEN <<Fail("No concrete children found for", <<model>>)>>
                           ELSE <<>>),
              deferred |-> FALSE, raised |-> "none"]

AnnotationValue(annotation) ==
  IF annotation = "CONCRETE"
    THEN "extended_mypy_django_plugin.annotations.Concrete"
    ELSE "extended_mypy_django_plugin.annotations.DefaultQuerySet"

rewrap_type_var(resolver, annotation, model_type) ==
  IF ~resolver.has_info
    THEN Returned(None, <<Fail("Couldn't find information for", <<AnnotationValue(annotation)>>)>>, FALSE, "none")
    ELSE Returned(UnboundType("__ConcreteWithTypeVar__",
                              <<[kind |-> "Instance", name |-> AnnotationValue(annotation), items |-> <<model_type>>]>>),
                  <<>>, FALSE, "none")

(***************************************************************************)
(* Analyzer.  A call of a hook gives what a resolver call gives and the    *)
(* resolver methods it called.                                             *)
(***************************************************************************)
Analyzed(value, fails, deferred, exception, calls) == [value |-> value, fails |-> fails, deferred |-> deferred, raised |-> exception, calls |-> calls]

T_Parent == "extended_mypy_django_plugin.annotations.T_Parent"

\* A _has_typevars that does not look into unions.
_has_typevars_shallow(the_type) ==
  LET unwrapped == IF the_type.kind = "TypeType" THEN the_type.items[1] ELSE the_type
  IN  unwrapped.kind = "TypeVarType"

RECURSIVE _has_typevars(_)
_has_typevars(the_type) ==
  LET unwrapped == IF the_type.kind = "TypeType" THEN the_type.items[1] ELSE the_type
  IN  IF unwrapped.kind = "TypeVarType"
        THEN TRUE
        ELSE IF unwrapped.kind # "UnionType"
          THEN FALSE
          ELSE \E i \in 1..Len(unwrapped.items) : _has_typevars(unwrapped.items[i])

\* ctx.type of analyze_type: the annotation with its arguments, unanalysed
CtxType(annotation, args) == UnboundType(AnnotationValue(annotation), args)

IsPluginTypeVar(model_type) ==
  \/ /\ model_type.kind = "TypeType"
     /\ model_type.items[1].kind = "TypeVarType"
     /\ model_type.items[1].name = T_Parent
  \/ /\ model_type.kind = "TypeVarType"
     /\ model_type.name = T_Parent

\* The end of analyze_type: ctx.type when resolved is None.
resolved_or_ctx_type(ctx_type, resolved) ==
  Analyzed(IF resolved.raised # "none"
             THEN None
             ELSE IF resolved.value = None THEN ctx_type ELSE resolved.value,
           resolved.fails, resolved.deferred, resolved.raised, <<"resolve">>)

\* Analyzer.analyze_type; args are ctx.type.args as ctx.api.analyze_type
\* gives them.
analyze_type(resolver, args, annotation) ==
  IF Len(args) # 1
    THEN Analyzed(CtxType(annotation, args),
                  <<Fail("Concrete annotations must contain exactly one argument", <<>>)>>,
                  FALSE, "none", <<>>)
    ELSE LET model_type == args[1]
         IN  IF IsPluginTypeVar(model_type)
               THEN Analyzed(CtxType(annotation, args), <<>>, FALSE, "none", <<>>)
               ELSE IF _has_typevars(model_type)
                 THEN LET wrapped == rewrap_type_var(resolver, annotation, model_type)
                      IN  Analyzed(IF wrapped.value = None
                                     THEN CtxType(annotation, args)
                                     ELSE wrapped.value,
                                   wrapped.fails, wrapped.deferred, wrapped.raised,
                                   <<"rewrap_type_var">>)
                 ELSE resolved_or_ctx_type(CtxType(annotation, args),
                                           resolve(resolver, annotation, model_type))

\* What transform_cast_as_concrete leaves: the CastExpr put in
\* ctx.call.analyzed (None when none), and func.type.arg_types[0] when it
\* was replaced (None when not).
Transformed(cast, fails, deferred, exception, first_arg_type) == [cast |-> cast, fails |-> fails, deferred |-> deferred, raised |-> exception, first_arg_type |-> first_arg_type]

NameExpr(name) == [kind |-> "NameExpr", name |-> name]

MemberExpr(name) == [kind |-> "MemberExpr", name |-> name]

CastExpr(expr, type) == [kind |-> "CastExpr", name |-> expr.name, items |-> <<type>>]

\* The end of transform_cast_as_concrete: perform a cast to what resolve
\* gave, when it gave a type.
cast_resolved(first_arg, concrete, first_arg_type) ==
  IF concrete.raised # "none" \/ concrete.value = None
    THEN Transformed(None, concrete.fails, concrete.deferred, concrete.raised, first_arg_type)
    ELSE Transformed(CastExpr(first_arg, concrete.value), concrete.fails,
                     concrete.deferred, "none", first_arg_type)

\* A transform_cast_as_concrete that takes any expression for a name.
transform_cast_as_concrete_any_expr(resolver, ctx) ==
  IF Len(ctx.args) # 1
    THEN Transformed(None, <<Fail("Concrete.cast_as_concrete takes exactly one argument", <<>>)>>, FALSE, "none", None)
    ELSE LET arg_type == IF ctx.args[1].name \in DOMAIN ctx.scope THEN ctx.scope[ctx.args[1].name] ELSE None
             is_type == arg_type.kind = "TypeType"
         IN  IF arg_type = None
               THEN Transformed(None, <<Fail("Failed to lookup the argument", <<>>)>>, FALSE, "none", None)
               ELSE cast_resolved(ctx.args[1], resolve(resolver, "CONCRETE", arg_type), None)

\* Analyzer.transform_cast_as_concrete.  ctx.scope gives the declared type
\* of the names ctx.api.lookup_qualified finds; ctx.func is the function
\* the call is in (sem_api.scope.function).
transform_cast_as_concrete(resolver, ctx) ==
  IF Len(ctx.args) # 1
    THEN Transformed(None, <<Fail("Concrete.cast_as_concrete takes exactly one argument", <<>>)>>, FALSE, "none", None)
    ELSE IF ctx.args[1].kind # "NameExpr"
      THEN Transformed(None, <<Fail("cast_as_concrete can only take variable names.", <<>>)>>, FALSE, "none", None)
      ELSE LET first_arg == ctx.args[1]
               arg_type == IF first_arg.name \in DOMAIN ctx.scope THEN ctx.scope[first_arg.name] ELSE None
               is_type == arg_type.kind = "TypeType"
               arg_node_typ == IF is_type THEN arg_type.items[1] ELSE arg_type
           IN  IF arg_type = None
                 THEN Transformed(None, <<Fail("Failed to lookup the argument", <<>>)>>, FALSE, "none", None)
                 ELSE IF arg_node_typ.kind \notin {"Instance", "UnionType", "TypeVarType"}
                   THEN Transformed(None, <<Fail("Unsure what to do with the type of the argument given to cast_as_concrete", <<arg_node_typ.kind>>)>>, FALSE, "none", None)
                   ELSE IF arg_node_typ.kind = "TypeVarType"
                     THEN IF ctx.func.present /\ arg_node_typ.name = "Self"
                            THEN IF ~ctx.func.info_known
                                   THEN Transformed(None, <<Fail("Failed to resolve Self", <<>>)>>, FALSE, "none", None)
                                   ELSE LET replacement == Instance(ctx.func.info_fullname)
                                        IN  cast_resolved(first_arg,
                                                          resolve(resolver, "CONCRETE",
                                                                  IF is_type THEN TypeType(replacement) ELSE replacement),
                                                          IF ctx.func.is_callable /\ ctx.func.first_arg_name = ctx.name
                                                            THEN (IF is_type THEN TypeType(replacement) ELSE replacement)
                                                            ELSE None)
                            ELSE Transformed(None, <<Fail("Resolving type variables for cast_as_concrete not implemented", <<arg_node_typ.name>>)>>, FALSE, "none", None)
                     ELSE cast_resolved(first_arg,
                                        resolve(resolver, "CONCRETE",
                                                IF is_type THEN TypeType(arg_node_typ) ELSE arg_node_typ),
                                        None)

\* What transform_type_var_classmethod leaves: module.names, and whether
\* it wrote the symbol.
Defined(names, wrote, fails, deferred) == [names |-> names, wrote |-> wrote, fails |-> fails, deferred |-> deferred]

\* A transform_type_var_classmethod that keeps the type var of an earlier pass.
transform_type_var_classmethod_keeping(resolver, ctx, names) ==
  IF ctx.n_args # 2
    THEN Defined(names, FALSE, <<Fail("Concrete.type_var takes exactly two arguments", <<>>)>>, FALSE)
    ELSE IF ~ctx.name_ok
      THEN Defined(names, FALSE, <<>>, FALSE)
      ELSE IF ctx.parent_type.kind # "Instance"
        THEN IF resolver.final_iteration
               THEN Defined(names, FALSE, <<Fail("Failed to locate the model provided to to make", <<ctx.name>>)>>, FALSE)
               ELSE Defined(names, FALSE, <<>>, TRUE)
        ELSE LET type_var_expr == type_var_expr_for(resolver, ctx.parent_type.name, ctx.name, <<ctx.cur_mod_id, ctx.name>>)
             IN  IF ctx.name \in DictKeys(names)
                   THEN Defined(names, FALSE, type_var_expr.fails, FALSE)
                   ELSE Defined(DictSet(names, ctx.name, type_var_expr.value), TRUE, type_var_expr.fails, FALSE)

\* Analyzer.transform_type_var_classmethod.  ctx.parent_type is what
\* sem_api.expr_to_analyzed_type gives for the second argument, ctx.name_ok
\* whether extract_typevarlike_name gives a name.
transform_type_var_classmethod(resolver, ctx, names) ==
  IF ctx.n_args # 2
    THEN Defined(names, FALSE, <<Fail("Concrete.type_var takes exactly two arguments", <<>>)>>, FALSE)
    ELSE IF ~ctx.name_ok
      THEN Defined(names, FALSE, <<>>, FALSE)
      ELSE IF ctx.parent_type.kind # "Instance"
        THEN IF resolver.final_iteration
               THEN Defined(names, FALSE, <<Fail("Failed to locate the model provided to to make", <<ctx.name>>)>>, FALSE)
               ELSE Defined(names, FALSE, <<>>, TRUE)
        ELSE LET type_var_expr == type_var_expr_for(resolver, ctx.parent_type.name, ctx.name, <<ctx.cur_mod_id, ctx.name>>)
             IN  Defined(DictSet(names, ctx.name, type_var_expr.value), TRUE, type_var_expr.fails, FALSE)

(***************************************************************************)
(* The project the hooks are called on: myapp.models.Parent with its four  *)
(* concrete children, and models whose aliases make the lookups fail.      *)
(***************************************************************************)
Parent == "myapp.models.Parent"
Child1 == "myapp.models.Child1"
Child2 == "myapp.models.Child2"
Pending == "myapp.models.Pending"
Mixed == "myapp.models.Mixed"
Unbuilt == "myapp.models.Unbuilt"
NotAModel == "builtins.int"

ConcreteOfParent ==
  << Instance(Child1), Instance(Child2), Instance("myapp.models.Child3"),
     Instance("myapp2.models.ChildOther") >>

QuerySetsOfParent ==
  << Instance("django.db.models.query.QuerySet[myapp.models.Child1, myapp.models.Child1]"),
     Instance("myapp.models.Child2QuerySet"),
     Instance("django.db.models.query.QuerySet[myapp.models.Child3, myapp.models.Child3]"),
     Instance("django.db.models.query.QuerySet[myapp2.models.ChildOther, myapp2.models.ChildOther]") >>

\* The aliases of the report: NotAModel has none.
TheReport ==
  [ concrete_aliases |->
      << [key |-> Parent, value |-> "Concrete__Parent"],
         [key |-> Child1, value |-> "Concrete__Child1"],
         [key |-> Pending, value |-> "Concrete__Pending"],
         [key |-> Mixed, value |-> "Concrete__Mixed"],
         [key |-> Unbuilt, value |-> "Concrete__Unbuilt"] >>,
    queryset_aliases |->
      << [key |-> Parent, value |-> "ConcreteQuerySet__Parent"],
         [key |-> Child1, value |-> "ConcreteQuerySet__Child1"],
         [key |-> Child2, value |-> "ConcreteQuerySet__Child2"] >> ]

\* The symbols of the aliases: the alias of Pending is a placeholder until
\* the analyzer has bound it, the alias of Unbuilt has no symbol, and a
\* member of the alias of Mixed is not an instance.
Symbols(pending_bound) ==
  [ a \in { "Concrete__Parent", "Concrete__Child1", "Concrete__Pending",
            "Concrete__Mixed", "ConcreteQuerySet__Parent",
            "ConcreteQuerySet__Child1", "ConcreteQuerySet__Child2" } |->
      CASE a = "Concrete__Parent" -> Symbol("TypeAlias", UnionType(ConcreteOfParent))
        [] a = "Concrete__Child1" -> Symbol("TypeAlias", Instance(Child1))
        [] a = "Concrete__Pending" ->
             IF pending_bound
               THEN Symbol("TypeAlias", Instance("myapp.models.PendingChild"))
               ELSE Symbol("PlaceholderNode", None)
        [] a = "Concrete__Mixed" ->
             Symbol("TypeAlias", UnionType(<<Instance(Child1), NoneType, Instance(Child2)>>))
        [] a = "ConcreteQuerySet__Parent" -> Symbol("TypeAlias", UnionType(QuerySetsOfParent))
        [] a = "ConcreteQuerySet__Child1" -> Symbol("TypeAlias", QuerySetsOfParent[1])
        [] OTHER -> Symbol("TypeAlias", QuerySetsOfParent[2]) ]

T_Child == TypeVarType("main.T_Child")

\* The analysed arguments an annotation is given.
ModelTypes ==
  { Instance(Parent), Instance(Child1), Instance(Child2), Instance(Pending),
    Instance(Mixed), Instance(Unbuilt), Instance(NotAModel),
    TypeType(Instance(Parent)), TypeType(Instance(Child1)),
    TypeType(Instance(NotAModel)),
    UnionType(<<Instance(Child1), Instance(Parent)>>),
    UnionType(<<Instance(Child1), UnionType(<<Instance(Child2), Instance(Child1)>>)>>),
    UnionType(<<Instance(Child1), NoneType>>),
    UnionType(<<Instance(NotAModel), Instance(Pending)>>),
    AnyType, NoneType,
    T_Child, TypeType(T_Child), TypeVarType(T_Parent), TypeType(TypeVarType(T_Parent)),
    UnionType(<<Instance(Child1), TypeType(T_Child)>>),
    UnionType(<<Instance(Child1), UnionType(<<NoneType, T_Child>>)>>),
    TypeType(UnionType(<<Instance(Child1), T_Child>>)) }

ArgsChoices ==
  {<<>>, <<Instance(Parent), Instance(Child1)>>} \cup {<<t>> : t \in ModelTypes}

Annotations == {"CONCRETE", "DEFAULT_QUERYSET"}

\* lookup_info finds the annotations, or (where it is asked) does not.
AnalyzeChoices ==
  { <<args, annotation, has_info>> \in ArgsChoices \X Annotations \X BOOLEAN :
      has_info \/ (Len(args) = 1 /\ _has_typevars(args[1])) }

\* The models _instances_from_aliases is asked for.
ModelsChoices ==
  { <<>>, <<Parent>>, <<Child1>>, <<NotAModel>>, <<Pending>>, <<Mixed>>, <<Unbuilt>>,
    <<NotAModel, Parent>>, <<Unbuilt, Child1>>, <<Mixed, Parent>>,
    <<Child1, NotAModel, Unbuilt, Parent>>, <<Child1, Pending, Parent>>,
    <<NotAModel, Pending>>, <<Parent, Parent>> }

\* The declared types of the names a call of cast_as_concrete can see.
Scope ==
  [ cls |-> TypeType(Instance(Parent)), instance |-> Instance(Parent),
    child |-> Instance(Child1), number |-> Instance(NotAModel),
    anything |-> AnyType, nothing |-> NoneType, waiting |-> Instance(Pending),
    this |-> TypeVarType("Self"), this_cls |-> TypeType(TypeVarType("Self")),
    generic |-> T_Child ]

CastArgsChoices ==
  { <<>>, <<MemberExpr("thing.model")>>, <<NameExpr("missing")>>,
    <<NameExpr("cls"), NameExpr("instance")>> }
    \cup { <<NameExpr(v)>> : v \in DOMAIN Scope }

Func(present, info_known) == [present |-> present, info_fullname |-> Parent, info_known |-> info_known, first_arg_name |-> "this", is_callable |-> present]

NoFunc == Func(FALSE, FALSE)

CastCtx(name, args, func) == [name |-> name, args |-> args, scope |-> Scope, func |-> func]

\* A call at module level, or a call on self or cls in a method of Parent.
CastCtxChoices ==
  { CastCtx(n, a, NoFunc) : n \in {"found", "cls"}, a \in CastArgsChoices }
    \cup { CastCtx(n, <<NameExpr(v)>>, Func(TRUE, known)) :
             n \in {"found", "this"}, v \in {"this", "this_cls"}, known \in BOOLEAN }

\* The types the names have after `name = Concrete.cast_as_concrete(arg)`:
\* the name assigned to takes the type of the cast, when there is one.
types_after(ctx, transformed) ==
  IF transformed.cast = None
    THEN ctx.scope
    ELSE [v \in DOMAIN ctx.scope \cup {ctx.name} |->
            IF v = ctx.name THEN transformed.cast.items[1] ELSE ctx.scope[v]]

TypeVarCtx(n_args, name_ok, parent_type) == [n_args |-> n_args, name_ok |-> name_ok, name |-> "T_Child", cur_mod_id |-> "main", parent_type |-> parent_type]

\* The second argument is a class, or is not one yet.
TypeVarCtxChoices ==
  { TypeVarCtx(n, ok, p) : n \in {1, 2}, ok \in BOOLEAN,
      p \in {Instance(Parent), Instance(Pending), Instance(Unbuilt), Instance(Child2), AnyType} }

(***************************************************************************)
(* mypy calling the hooks while it analyses and checks the project.        *)
(***************************************************************************)
VARIABLES
  pending_bound,        \* whether the analyzer has bound the alias of Pending
  sem_final_iteration,  \* sem_api.final_iteration
  module_names,         \* module.names of the module that calls type_var
  last_call             \* the call of a hook mypy is in, with what the call gives

hook_vars == <<pending_bound, sem_final_iteration, module_names, last_call>>

NoCall == [hook |-> "none"]

HookInit ==
  /\ pending_bound = FALSE
  /\ sem_final_iteration = FALSE
  /\ module_names = <<>>
  /\ last_call = NoCall

\* The resolver make_resolver gives a hook of the semantic analyzer.
SemResolver(has_info) == Resolver(Symbols(pending_bound), TheReport, "sem", sem_final_iteration, has_info)

\* The resolver make_resolver gives a hook of the type checker.
CheckerResolver == Resolver(Symbols(pending_bound), TheReport, "checker", sem_final_iteration, TRUE)

\* The type analyser meets Concrete[...] or DefaultQuerySet[...].
AnalyzeType(args, annotation, has_info) ==
  /\ last_call = NoCall
  /\ last_call' = [hook |-> "analyze_type", args |-> args,
                   annotation |-> annotation, has_info |-> has_info,
                   out |-> analyze_type(SemResolver(has_info), args, annotation)]
  /\ UNCHANGED <<pending_bound, sem_final_iteration, module_names>>

\* A hook of the type checker resolves an annotation.
ResolveInChecker(annotation, model_type) ==
  /\ last_call = NoCall
  /\ last_call' = [hook |-> "resolve", annotation |-> annotation,
                   model_type |-> model_type,
                   out |-> resolve(CheckerResolver, annotation, model_type)]
  /\ UNCHANGED <<pending_bound, sem_final_iteration, module_names>>

\* The report and the symbols are asked for the instances of some models.
InstancesFromAliases(getter, models) ==
  /\ last_call = NoCall
  /\ last_call' = [hook |-> "_instances_from_aliases", getter |-> getter,
                   models |-> models,
                   aliases |-> aliases_for(CheckerResolver, getter, models),
                   out |-> _instances_from_aliases(CheckerResolver, getter, models)]
  /\ UNCHANGED <<pending_bound, sem_final_iteration, module_names>>

\* name = Concrete.cast_as_concrete(...)
TransformCastAsConcrete(ctx) ==
  /\ last_call = NoCall
  /\ LET transformed == transform_cast_as_concrete(SemResolver(TRUE), ctx)
     IN  last_call' = [hook |-> "transform_cast_as_concrete", name |-> ctx.name,
                       args |-> ctx.args, func |-> ctx.func, out |-> transformed,
                       types_after |-> types_after(ctx, transformed)]
  /\ UNCHANGED <<pending_bound, sem_final_iteration, module_names>>

\* T_Child = Concrete.type_var("T_Child", ...), on one pass of the analyzer.
TransformTypeVarClassmethod(ctx) ==
  /\ last_call = NoCall
  /\ LET defined == transform_type_var_classmethod(SemResolver(TRUE), ctx, module_names)
     IN  /\ module_names' = defined.names
         /\ last_call' = [hook |-> "transform_type_var_classmethod", ctx |-> ctx,
                          names_before |-> module_names, out |-> defined]
  /\ UNCHANGED <<pending_bound, sem_final_iteration>>

\* The hook returns to mypy, which calls its hooks one at a time.
HookReturns ==
  /\ last_call # NoCall
  /\ last_call' = NoCall
  /\ UNCHANGED <<pending_bound, sem_final_iteration, module_names>>

\* The analyzer goes on to its next iteration: the alias of Pending may get
\* bound, and the iteration may be the final one.
SemanalIterate(bound, final) ==
  /\ last_call = NoCall
  /\ ~sem_final_iteration
  /\ pending_bound => bound
  /\ pending_bound' = bound
  /\ sem_final_iteration' = final
  /\ UNCHANGED <<module_names, last_call>>

(***************************************************************************)
(* One VirtualDependencyInstaller and the calls made of it.                *)
(* MaxInstalls bounds how many calls a behaviour holds.                    *)
(***************************************************************************)
MaxInstalls == 2

\* The caller makes a fresh scratch directory for every call.
ScratchRoot(k) == <<"scratch_root", k>>
ScratchRoots == {ScratchRoot(k) : k \in 1..MaxInstalls}
Destination == <<"destination", 1>>
NoReport == [modules |-> {}, combined |-> FALSE]
NotObserved == [call |-> 0, tree |-> EmptyTree]

VARIABLES
  virtual_dependencies, \* the map the installer was constructed with
  pc,                   \* "constructed", "writing", "done" or "failed"
  call_scratch_root,    \* the scratch_root argument of the call
  reports,              \* the reports accumulated by the call
  written,              \* the test ReportInstaller's dict `written`
  installed,            \* the test ReportInstaller's list `installed`
  scratch,              \* the tree under every scratch root
  destination_tree,     \* the tree under destination
  dest_before,          \* the tree under destination when the call began
  result,               \* what the call returned
  raised,               \* the exception the call raised, or "none"
  seen,                 \* what the external reader saw last, and when
  attempts,             \* the ReportInstaller calls the call made, in order
  outcomes,             \* one record for every call that ended
  rendered              \* what deploy_scribes has rendered in the call

inst_vars ==
  <<virtual_dependencies, pc, call_scratch_root, reports, written, installed,
    scratch, destination_tree, dest_before, result, raised, seen, attempts,
    n_calls, outcomes, rendered>>

vars == <<gen_vars, inst_vars, daemon_vars, hook_vars>>

InstInit ==
  /\ virtual_dependencies \in TestMaps
  /\ pc = "constructed"
  /\ call_scratch_root = ScratchRoot(1)
  /\ reports = <<>>
  /\ written = <<>>
  /\ installed = <<>>
  /\ scratch = [s \in ScratchRoots |-> EmptyTree]
  /\ destination_tree = EmptyTree
  /\ dest_before = EmptyTree
  /\ result = NoReport
  /\ raised = "none"
  /\ seen = NotObserved
  /\ attempts = <<>>
  /\ n_calls = 0
  /\ outcomes = <<>>
  /\ rendered = <<>>

\* The virtual import paths write_report was given by the call and wrote.
WrittenPaths == {attempts[i][3] : i \in 1..Len(reports)}

\* The record of the call that ends with `status`.
Outcome(status, tree) ==
  [virtual_dependencies |-> virtual_dependencies,
   scratch_root |-> call_scratch_root,
   status |-> status,
   produced |-> [p \in WrittenPaths |-> written[<<call_scratch_root, p>>]],
   destination_tree |-> tree]

\* VirtualDependencyInstaller(virtual_dependencies=...): nothing is called.
Construct ==
  /\ pc # "writing"
  /\ n_calls < MaxInstalls
  /\ \E m \in TestMaps : virtual_dependencies' = m
  /\ pc' = "constructed"
  /\ UNCHANGED <<call_scratch_root, reports, written, installed, scratch,
                 destination_tree, dest_before, result, raised, seen, attempts,
                 n_calls, outcomes, rendered>>

\* installer(scratch_root=..., destination=..., report_factory=...) begins.
Call ==
  /\ pc # "writing"
  /\ n_calls < MaxInstalls
  /\ call_scratch_root' = ScratchRoot(n_calls + 1)
  /\ pc' = "writing"
  /\ reports' = <<>>
  /\ attempts' = <<>>
  /\ dest_before' = destination_tree
  /\ result' = NoReport
  /\ raised' = "none"
  /\ n_calls' = n_calls + 1
  /\ rendered' = deploy_scribes_rendered(virtual_dependencies, 0)
  /\ UNCHANGED <<virtual_dependencies, written, installed, scratch,
                 destination_tree, seen, outcomes>>

(***************************************************************************)
(* One turn of the call's loop: the next written virtual dependency is     *)
(* asked of deploy_scribes, write_report is called with it and its         *)
(* report is kept.  write_report may fail: the test's assertion, or the    *)
(* file system.  A failure leaves the call.                                *)
(***************************************************************************)
WriteReport ==
  /\ pc = "writing"
  /\ Len(reports) < Len(virtual_dependencies)
  /\ rendered' = deploy_scribes_rendered(virtual_dependencies, Len(reports) + 1)
  /\ LET w == rendered'[Len(reports) + 1]
         r == write_report(written, call_scratch_root, w.summary_hash,
                           w.virtual_import_path, w.content)
     IN  \E io_ok \in BOOLEAN :
           /\ attempts' = Append(attempts,
                <<"write_report", call_scratch_root, w.virtual_import_path>>)
           /\ IF ~r.raised /\ io_ok
                THEN /\ written' = r.written
                     /\ scratch' = [scratch EXCEPT ![call_scratch_root] =
                                      WriteFile(@, w.virtual_import_path, w.content)]
                     /\ reports' = Append(reports, w.report)
                     /\ UNCHANGED <<pc, raised, outcomes>>
                ELSE /\ pc' = "failed"
                     /\ raised' = IF r.raised THEN "AssertionError" ELSE "OSError"
                     /\ outcomes' = Append(outcomes, Outcome("failed", destination_tree))
                     /\ UNCHANGED <<written, scratch, reports>>
  /\ UNCHANGED <<virtual_dependencies, call_scratch_root, installed,
                 destination_tree, dest_before, result, seen, n_calls>>

(***************************************************************************)
(* After the loop: install_reports is called, then the reports are         *)
(* combined and the combined report is returned.                           *)
(***************************************************************************)
InstallReports ==
  /\ pc = "writing"
  /\ Len(reports) = Len(virtual_dependencies)
  /\ \E io_ok \in BOOLEAN :
       LET tree == install_reports(scratch[call_scratch_root], destination_tree, io_ok)
       IN  /\ attempts' = Append(attempts,
                <<"install_reports", call_scratch_root, Destination>>)
           /\ destination_tree' = tree
           /\ IF io_ok
                THEN /\ installed' = record_install_reports(installed,
                                       call_scratch_root, Destination)
                     /\ result' = ReportCombiner_combine(reports)
                     /\ pc' = "done"
                     /\ outcomes' = Append(outcomes, Outcome("done", tree))
                     /\ UNCHANGED raised
                ELSE /\ pc' = "failed"
                     /\ raised' = "OSError"
                     /\ outcomes' = Append(outcomes, Outcome("failed", tree))
                     /\ UNCHANGED <<installed, result>>
  /\ UNCHANGED <<virtual_dependencies, call_scratch_root, reports, written,
                 scratch, dest_before, seen, n_calls, rendered>>

\* The external reader looks at destination.
ReaderObserve ==
  /\ seen' = [call |-> n_calls, tree |-> destination_tree]
  /\ UNCHANGED <<virtual_dependencies, pc, call_scratch_root, reports, written,
                 installed, scratch, destination_tree, dest_before, result,
                 raised, attempts, n_calls, outcomes, rendered>>

(***************************************************************************)
(* The specifications.  Each one runs one part and leaves the other as it  *)
(* begins.                                                                 *)
(***************************************************************************)
GenIdle ==
  /\ discovered = Discover({})
  /\ apps_hash = Str("__hashed_installed_apps__")
  /\ runs = <<>>
  /\ env_changed = FALSE

InstIdle ==
  /\ InstInit
  /\ virtual_dependencies = <<>>

GenNext ==
  \/ Generate /\ UNCHANGED <<inst_vars, daemon_vars, hook_vars>>
  \/ ToggleInstalled /\ UNCHANGED <<inst_vars, daemon_vars, hook_vars>>
  \/ ChangeInstalledAppsHash /\ UNCHANGED <<inst_vars, daemon_vars, hook_vars>>

InitGen == GenInit /\ InstIdle /\ DaemonInit /\ HookInit

SpecGen == InitGen /\ [][GenNext]_vars

InstNext ==
  \/ Construct /\ UNCHANGED <<gen_vars, daemon_vars, hook_vars>>
  \/ Call /\ UNCHANGED <<gen_vars, daemon_vars, hook_vars>>
  \/ WriteReport /\ UNCHANGED <<gen_vars, daemon_vars, hook_vars>>
  \/ InstallReports /\ UNCHANGED <<gen_vars, daemon_vars, hook_vars>>
  \/ ReaderObserve /\ UNCHANGED <<gen_vars, daemon_vars, hook_vars>>

InitInstall == InstInit /\ GenIdle /\ DaemonInit /\ HookInit

SpecInstall == InitInstall /\ [][InstNext]_vars

DaemonNext ==
  \/ \E custom_settings \in SettingsChoices : \E project \in ProjectChoices :
       StartDaemon(custom_settings, project)
         /\ UNCHANGED <<gen_vars, inst_vars, hook_vars>>
  \/ \E custom_settings \in SettingsChoices : \E project \in ProjectChoices :
       RunAndCheckMypy(custom_settings, project)
         /\ UNCHANGED <<gen_vars, inst_vars, hook_vars>>

InitDaemon == DaemonInit /\ GenIdle /\ InstIdle /\ HookInit

SpecDaemon == InitDaemon /\ [][DaemonNext]_vars

HookNext ==
  \/ \E choice \in AnalyzeChoices :
       AnalyzeType(choice[1], choice[2], choice[3])
         /\ UNCHANGED <<gen_vars, inst_vars, daemon_vars>>
  \/ \E annotation \in Annotations : \E model_type \in ModelTypes :
       ResolveInChecker(annotation, model_type)
         /\ UNCHANGED <<gen_vars, inst_vars, daemon_vars>>
  \/ \E getter \in {"get_concrete_aliases", "get_queryset_aliases"} : \E models \in ModelsChoices :
       InstancesFromAliases(getter, models)
         /\ UNCHANGED <<gen_vars, inst_vars, daemon_vars>>
  \/ \E ctx \in CastCtxChoices :
       TransformCastAsConcrete(ctx)
         /\ UNCHANGED <<gen_vars, inst_vars, daemon_vars>>
  \/ \E ctx \in TypeVarCtxChoices :
       TransformTypeVarClassmethod(ctx)
         /\ UNCHANGED <<gen_vars, inst_vars, daemon_vars>>
  \/ HookReturns /\ UNCHANGED <<gen_vars, inst_vars, daemon_vars>>
  \/ \E bound \in BOOLEAN : \E final \in BOOLEAN :
       SemanalIterate(bound, final)
         /\ UNCHANGED <<gen_vars, inst_vars, daemon_vars>>

InitHooks == HookInit /\ GenIdle /\ InstIdle /\ DaemonInit

SpecHooks == InitHooks /\ [][HookNext]_vars

(***************************************************************************)
(* Claims about the installer, under SpecInstall.                          *)
(***************************************************************************)

\* The call has ended with the publish done.
Published ==
  /\ n_calls > 0
  /\ Len(outcomes) = n_calls
  /\ outcomes[n_calls].status = "done"

VirtualNames(map) == {map[i].value.summary.virtual_dependency_name : i \in 1..Len(map)}

\* tree is the destination as it was when the call began, or the complete
\* set of files the call made: one file for every entry, with its content.
OldOrNew(tree) ==
  \/ tree = dest_before
  \/ /\ Published
     /\ tree = scratch[call_scratch_root]
     /\ DOMAIN tree = VirtualNames(outcomes[n_calls].virtual_dependencies)
     /\ \A p \in DOMAIN tree : tree[p] = written[<<call_scratch_root, p>>][1]

(* C1: whenever the external reader looks at destination before, during or *)
(* after a call of the installer, it sees the complete old set of files or *)
(* the complete new set, never a mix of the two.                           *)
C1_ReaderSeesOldOrNew ==
  /\ OldOrNew(destination_tree)
  /\ seen.call = n_calls => OldOrNew(seen.tree)

\* The reader saw the new set, which replaced a different old set of files.
C1_Witness ==
  /\ seen.call = n_calls
  /\ Published
  /\ seen.tree # dest_before
  /\ dest_before # EmptyTree
  /\ ~(DOMAIN dest_before \subseteq DOMAIN seen.tree)

(* C2: when write_report or install_reports fails the call is left at once *)
(* with the failure raised to the caller, destination holds what it held   *)
(* when the call began, nothing is returned, and no ReportInstaller call   *)
(* was made a second time.                                                 *)
C2_FailureLeavesDestination ==
  pc = "failed" =>
    /\ destination_tree = dest_before
    /\ raised # "none"
    /\ result = NoReport
    /\ Len(attempts) = Len(reports) + 1
    /\ \A i, j \in 1..Len(attempts) : attempts[i] = attempts[j] => i = j
    /\ outcomes[n_calls].status = "failed"

\* install_reports failed with files to publish over an older set of files.
C2_Witness ==
  /\ pc = "failed"
  /\ attempts[Len(attempts)][1] = "install_reports"
  /\ dest_before # EmptyTree
  /\ scratch[call_scratch_root] # dest_before

(* C3: in one call write_report is called once for every entry of the map, *)
(* never twice for one (scratch_root, virtual_import_path), with the       *)
(* call's scratch_root, the entry's virtual_dependency_name as the virtual *)
(* import path and the content and summary hash rendered for the entry;    *)
(* before the first call nothing was written or installed.                 *)
C3_WriteReportOncePerEntry ==
  /\ n_calls = 0 => (written = <<>> /\ installed = <<>> /\ attempts = <<>>)
  /\ pc # "constructed" =>
       /\ \A i, j \in 1..Len(attempts) : attempts[i] = attempts[j] => i = j
       /\ \A i \in 1..Len(attempts) :
            attempts[i][1] = "write_report" =>
              /\ i <= Len(virtual_dependencies)
              /\ attempts[i] =
                   <<"write_report", call_scratch_root,
                     virtual_dependencies[i].value.summary.virtual_dependency_name>>
  /\ pc = "done" =>
       /\ Len(attempts) = Len(virtual_dependencies) + 1
       /\ \A i \in 1..Len(virtual_dependencies) :
            LET summary == virtual_dependencies[i].value.summary
                key == <<call_scratch_root, summary.virtual_dependency_name>>
            IN  /\ attempts[i][1] = "write_report"
                /\ key \in DOMAIN written
                /\ written[key] =
                     << Str("CONTENT__") \o summary.module_import_path,
                        Str("SUMMARY__") \o summary.module_import_path >>

\* A call that wrote two entries has ended.
C3_Witness ==
  /\ pc = "done"
  /\ Len(virtual_dependencies) = 2
  /\ Cardinality(DOMAIN written) >= 2

\* The calls that ended with the publish done.
DoneCalls == {i \in 1..Len(outcomes) : outcomes[i].status = "done"}

(* C4: a successful call calls install_reports exactly once, after every   *)
(* write_report call of the call, with the scratch_root every write_report *)
(* was given and with the caller's destination.                            *)
C4_InstallReportsOnceAfterWrites ==
  /\ Len(installed) = Cardinality(DoneCalls)
  /\ pc = "writing" =>
       \A i \in 1..Len(attempts) : attempts[i][1] = "write_report"
  /\ pc = "done" =>
       LET n == Len(attempts)
       IN  /\ n = Len(virtual_dependencies) + 1
           /\ attempts[n] = <<"install_reports", call_scratch_root, Destination>>
           /\ \A i \in 1..(n - 1) :
                attempts[i][1] = "write_report" /\ attempts[i][2] = call_scratch_root
           /\ installed[Len(installed)] = <<call_scratch_root, Destination>>

\* The second successful call has ended, after its writes.
C4_Witness ==
  /\ pc = "done"
  /\ Len(installed) = 2
  /\ Len(attempts) >= 2

(* C5: the call returns the combination of the reports of all entries of   *)
(* the map: the (real module path, virtual module path) pair of every      *)
(* entry and no other pair.                                                *)
C5_ReturnsCombinedReport ==
  /\ pc = "done" =>
       result =
         [modules |->
            {<<virtual_dependencies[i].value.summary.module_import_path,
               virtual_dependencies[i].value.summary.virtual_dependency_name>> :
               i \in 1..Len(virtual_dependencies)},
          combined |-> TRUE]
  /\ pc \in {"writing", "failed"} => result = NoReport

\* A call returned the report of two modules.
C5_Witness ==
  /\ pc = "done"
  /\ Cardinality(result.modules) = 2
  /\ result.combined

ModulesOf(run) == run.discovered_project.installed_models_modules

(* C7: the generator returns one VirtualDependency for every module of the *)
(* discovered project, keyed by the module's real import path: no module   *)
(* is left out, the modules that define no models included, and no other   *)
(* key is there.                                                           *)
C7_OneVirtualDependencyPerModule ==
  \A r \in 1..Len(runs) :
    LET generated == runs[r].generated
        modules == ModulesOf(runs[r])
    IN  /\ DictKeys(generated) = DictKeys(modules)
        /\ Len(generated) = Len(modules)
        /\ \A i \in 1..Len(generated) :
             /\ generated[i].value.module = DictValue(modules, generated[i].key)
             /\ generated[i].value.module.import_path = generated[i].key
             /\ generated[i].value.summary.module_import_path = generated[i].key

\* A run generated a record for a module that defines no models.
C7_Witness ==
  \E r \in 1..Len(runs) :
    \E i \in 1..Len(runs[r].generated) :
      /\ runs[r].generated[i].key = empty_models
      /\ runs[r].generated[i].value.module.defined_models = {}
      /\ Len(runs[r].generated) = Len(ExampleModules)

(* C8: the VirtualDependency of a module that has no related models has    *)
(* the empty map as concrete_models and the empty list as                  *)
(* all_related_models, and it is an entry of the generated map.            *)
C8_NoRelatedModelsGivesEmptyRecord ==
  \A r \in 1..Len(runs) :
    \A i \in 1..Len(ModulesOf(runs[r])) :
      LET module == ModulesOf(runs[r])[i].value
      IN  module.defined_models = {} =>
            /\ module.import_path \in DictKeys(runs[r].generated)
            /\ LET virtual_dependency ==
                     DictValue(runs[r].generated, module.import_path)
               IN  /\ DOMAIN virtual_dependency.concrete_models = {}
                   /\ virtual_dependency.all_related_models = <<>>

\* A run generated the record of the module without models next to the
\* record of a module with related models.
C8_Witness ==
  \E r \in 1..Len(runs) :
    /\ empty_models \in DictKeys(runs[r].generated)
    /\ DictValue(runs[r].generated, empty_models).all_related_models = <<>>
    /\ relations1 \in DictKeys(runs[r].generated)
    /\ Len(DictValue(runs[r].generated, relations1).all_related_models) = 2

\* namespace + "." + "mod_" + checksum(real_path), for the test's modules.
synthetic_name ==
  [real_path \in DOMAIN expected_virtual_dependency_name |->
     Str("__virtual__") \o Str(".") \o Str("mod_") \o adler32_hash(real_path)]

\* The namer gives the names the generator test expects.
NamerGivesExpectedNames ==
  /\ \A real_path \in DOMAIN expected_virtual_dependency_name :
       /\ virtual_dependency_namer(real_path) = synthetic_name[real_path]
       /\ synthetic_name[real_path] = expected_virtual_dependency_name[real_path]
  /\ virtual_dependency_namer(Str("django.contrib.auth.base_user"))
       = Str("__virtual__.mod_2833058650")

(* C9: the virtual_dependency_name of every generated VirtualDependency is *)
(* namespace + "." + "mod_" + checksum(real import path of its module),    *)
(* the same in every run; for "__virtual__" and                            *)
(* "django.contrib.auth.base_user" it is "__virtual__.mod_2833058650".     *)
C9_SyntheticNameOfRealPath ==
  /\ NamerGivesExpectedNames
  /\ \A r \in 1..Len(runs) :
       \A i \in 1..Len(runs[r].generated) :
         runs[r].generated[i].value.summary.virtual_dependency_name
           = synthetic_name[runs[r].generated[i].key]

\* Two runs named the modules, the second after the project changed.
C9_Witness ==
  /\ Len(runs) = 2
  /\ runs[1].discovered_project # runs[2].discovered_project
  /\ DictValue(runs[1].generated, exampleapp).summary.virtual_dependency_name
       = Str("__virtual__.mod_3347844205")
  /\ DictValue(runs[2].generated, exampleapp).summary.virtual_dependency_name
       = Str("__virtual__.mod_3347844205")

\* Two runs read the same project with the same installed apps hash.
SameInputs(r1, r2) ==
  /\ runs[r1].discovered_project = runs[r2].discovered_project
  /\ runs[r1].installed_apps_hash = runs[r2].installed_apps_hash

(* C10: two runs over the same discovered project with the same installed  *)
(* apps hash generate, for every module, the same summary; of the fields   *)
(* of a VirtualDependency only interface_differentiator may differ.        *)
C10_SameInputsSameSummaries ==
  \A r1, r2 \in 1..Len(runs) :
    SameInputs(r1, r2) =>
      /\ DictKeys(runs[r1].generated) = DictKeys(runs[r2].generated)
      /\ \A k \in DictKeys(runs[r1].generated) :
           LET first == DictValue(runs[r1].generated, k)
               second == DictValue(runs[r2].generated, k)
           IN  /\ first.summary = second.summary
               /\ first.module = second.module
               /\ first.concrete_models = second.concrete_models
               /\ first.all_related_models = second.all_related_models

\* Two runs with the same inputs were given different differentiators.
C10_Witness ==
  /\ Len(runs) = 2
  /\ SameInputs(1, 2)
  /\ runs[1].make_differentiator # runs[2].make_differentiator
  /\ DictValue(runs[1].generated, exampleapp).interface_differentiator
       # DictValue(runs[2].generated, exampleapp).interface_differentiator
  /\ DictValue(runs[1].generated, exampleapp).summary
       = DictValue(runs[2].generated, exampleapp).summary

(***************************************************************************)
(* Further claims about the installer, under SpecInstall.                  *)
(***************************************************************************)

\* The orders in which n reports can be given to the combiner.
Orders(n) == {p \in [1..n -> 1..n] : \A i, j \in 1..n : p[i] = p[j] => i = j}

\* The reports that register_module makes from the pairs of the test's map.
SomeReports ==
  LET pairs == {<<TestDeps[i].value.summary.module_import_path,
                  TestDeps[i].value.summary.virtual_dependency_name>> :
                  i \in 1..Len(TestDeps)}
  IN  {[modules |-> S, combined |-> FALSE] : S \in SUBSET pairs}

\* combine([A, B]) = combine([B, A]) for the reports made of the test's pairs.
CombineOfTwoCommutes ==
  \A A, B \in SomeReports :
    ReportCombiner_combine(<<A, B>>) = ReportCombiner_combine(<<B, A>>)

(* C11: the combined report does not depend on the order of the reports:   *)
(* combining the reports of a call in any order gives the report that      *)
(* combining them in the order they were made gives, and                   *)
(* combine([A, B]) = combine([B, A]) for any two reports.                  *)
C11_CombineOrderIndependent ==
  /\ CombineOfTwoCommutes
  /\ \A p \in Orders(Len(reports)) :
       ReportCombiner_combine([i \in 1..Len(reports) |-> reports[p[i]]])
         = ReportCombiner_combine(reports)

\* A call made two different reports and returned their combination.
C11_Witness ==
  /\ pc = "done"
  /\ Len(reports) = 2
  /\ reports[1] # reports[2]
  /\ result = ReportCombiner_combine(<<reports[2], reports[1]>>)

\* The write_report calls the call has made: the items it was handed.
Handed == {i \in 1..Len(attempts) : attempts[i][1] = "write_report"}

(* C17: deploy_scribes renders one item for every entry of the map, in the *)
(* map's order, and only when the installer asks for it: nothing is        *)
(* rendered when the call begins, the rendered items are the ones handed   *)
(* to the installer, so that item k+1 is not rendered before item k was    *)
(* handed over; every item carries a report of its own that holds the pair *)
(* of its entry's real and virtual module path and nothing else.           *)
C17_ScribesRenderOnRequest ==
  pc # "constructed" =>
    /\ Len(rendered) = Cardinality(Handed)
    /\ Len(rendered) <= Len(reports) + 1
    /\ Len(rendered) <= Len(virtual_dependencies)
    /\ pc = "done" => Len(rendered) = Len(virtual_dependencies)
    /\ \A k \in 1..Len(rendered) :
         LET summary == virtual_dependencies[k].value.summary
         IN  /\ rendered[k].virtual_import_path = summary.virtual_dependency_name
             /\ rendered[k].content = Str("CONTENT__") \o summary.module_import_path
             /\ rendered[k].summary_hash = Str("SUMMARY__") \o summary.module_import_path
             /\ rendered[k].report =
                  [modules |-> {<<summary.module_import_path,
                                  summary.virtual_dependency_name>>},
                   combined |-> FALSE]

\* The first of two items was rendered and written, the second not yet.
C17_Witness ==
  /\ pc = "writing"
  /\ Len(virtual_dependencies) = 2
  /\ Len(rendered) = 1
  /\ Len(reports) = 1
  /\ rendered[1].report = reports[1]

(***************************************************************************)
(* Further claims about the engine runs, under SpecGen.                    *)
(***************************************************************************)

\* The models that have one of the models P as a direct abstract parent.
ChildrenOf(P) ==
  {m.import_path : m \in {x \in ExampleModels : x.parents \cap P # {}}}

\* P and every model that descends from a model of P, over the whole graph.
RECURSIVE DescendantsFrom(_)
DescendantsFrom(P) ==
  IF ChildrenOf(P) \subseteq P THEN P ELSE DescendantsFrom(P \cup ChildrenOf(P))

AbstractModels == {m.import_path : m \in {x \in ExampleModels : x.is_abstract}}

ModuleOf == [p \in {m.import_path : m \in ExampleModels} |->
               ModelAt(ExampleModels, p).module_import_path]

\* The concrete descendants of every abstract model, over the whole graph.
ConcreteDescendants ==
  [p \in AbstractModels |->
     {c \in DescendantsFrom({p}) : ~ModelAt(ExampleModels, c).is_abstract}]

\* The list a run reports for the model p, in the record of p's module.
ReportedFor(run, p) ==
  DictValue(run.generated, ModuleOf[p]).concrete_models[p]

\* The models of the module m in a list.
OfModule(list, m) == {c \in Range(list) : ModuleOf[c] = m}

(* C12: the list reported for an abstract model holds exactly its concrete *)
(* descendants over the whole graph that belong to installed modules: a    *)
(* module that is no longer installed loses its models from every list, a  *)
(* module that is installed again gets them back, and what the lists hold  *)
(* of the other modules stays.                                             *)
C12_ConcreteDescendantsOfInstalledModules ==
  /\ \A r \in 1..Len(runs) :
       \A p \in AbstractModels :
         Range(ReportedFor(runs[r], p))
           = {c \in ConcreteDescendants[p] :
                ModuleOf[c] \in InstalledOf(runs[r].discovered_project)}
  /\ \A r1, r2 \in 1..Len(runs) :
       \A p \in AbstractModels :
         \A m \in Range(ExampleModules) :
           LET before == OfModule(ReportedFor(runs[r1], p), m)
               after == OfModule(ReportedFor(runs[r2], p), m)
               was == m \in InstalledOf(runs[r1].discovered_project)
               is == m \in InstalledOf(runs[r2].discovered_project)
           IN  /\ (was /\ ~is) =>
                    /\ after = {}
                    /\ before = {c \in ConcreteDescendants[p] : ModuleOf[c] = m}
               /\ (was <=> is) => before = after

\* A module with a descendant of Parent was taken out of the installed
\* modules between two runs; the descendants of the other module stayed.
C12_Witness ==
  /\ Len(runs) = 2
  /\ {exampleapp, exampleapp2} \subseteq InstalledOf(runs[1].discovered_project)
  /\ exampleapp \in InstalledOf(runs[2].discovered_project)
  /\ exampleapp2 \notin InstalledOf(runs[2].discovered_project)
  /\ exampleapp2 \o Str(".ChildOther")
       \in Range(ReportedFor(runs[1], exampleapp \o Str(".Parent")))
  /\ exampleapp2 \o Str(".ChildOther")
       \notin Range(ReportedFor(runs[2], exampleapp \o Str(".Parent")))
  /\ exampleapp \o Str(".Child1")
       \in Range(ReportedFor(runs[2], exampleapp \o Str(".Parent")))

\* The modules whose installed flag differs between two runs.
Toggled(r1, r2) ==
  {m \in Range(ExampleModules) :
     (m \in InstalledOf(runs[r1].discovered_project))
       # (m \in InstalledOf(runs[r2].discovered_project))}

\* The list of every abstract model with a concrete descendant in a module
\* that was toggled between two runs differs between the runs.
ToggleChangesConcreteModels ==
  \A r1, r2 \in 1..Len(runs) :
    \A p \in AbstractModels :
      (\E c \in ConcreteDescendants[p] : ModuleOf[c] \in Toggled(r1, r2))
        => ReportedFor(runs[r1], p) # ReportedFor(runs[r2], p)

\* The models a record lists as concrete descendants.
ListedIn(virtual_dependency) ==
  UNION {Range(virtual_dependency.concrete_models[p]) :
           p \in DOMAIN virtual_dependency.concrete_models}

\* The models the fields of the module's models relate to.
FieldRelated(module) ==
  UNION {ModelAt(ExampleModels, p).related : p \in module.defined_models}

StrictlyIncreasing(list) ==
  \A i \in 1..(Len(list) - 1) : LexLess(list[i], list[i + 1])

InstalledConcrete(run, p) ==
  {c \in DescendantsFrom({p}) :
     /\ ~ModelAt(ExampleModels, c).is_abstract
     /\ ModuleOf[c] \in InstalledOf(run.discovered_project)}

(* C15 as stated: every key of concrete_models maps to a non-empty list,   *)
(* and an abstract model without concrete descendants has no key.          *)
C15_OnlyNonEmptyResultsKept ==
  \A r \in 1..Len(runs) :
    \A i \in 1..Len(runs[r].generated) :
      LET concrete_models == runs[r].generated[i].value.concrete_models
      IN  /\ \A p \in DOMAIN concrete_models : concrete_models[p] # <<>>
          /\ \A p \in AbstractModels :
               InstalledConcrete(runs[r], p) = {} => p \notin DOMAIN concrete_models

(* C15 amended: empty results are kept: every list of concrete_models      *)
(* holds concrete models only, a list is empty exactly when its key has no *)
(* concrete model of an installed module to list, and an abstract model    *)
(* without concrete descendants in installed modules keeps its key, with   *)
(* the empty list.                                                         *)
C15_EmptyResultsKept ==
  \A r \in 1..Len(runs) :
    \A i \in 1..Len(runs[r].generated) :
      LET virtual_dependency == runs[r].generated[i].value
          concrete_models == virtual_dependency.concrete_models
      IN  /\ \A p \in DOMAIN concrete_models :
               /\ \A c \in Range(concrete_models[p]) :
                    ~ModelAt(ExampleModels, c).is_abstract
               /\ concrete_models[p] = <<>> <=> InstalledConcrete(runs[r], p) = {}
          /\ \A p \in AbstractModels \cap virtual_dependency.module.defined_models :
               InstalledConcrete(runs[r], p) = {} =>
                 /\ p \in DOMAIN concrete_models
                 /\ concrete_models[p] = <<>>

\* With every module installed, AnAbstract has its key and the empty list,
\* next to Parent with its descendants.
C15_Witness ==
  \E r \in 1..Len(runs) :
    /\ InstalledOf(runs[r].discovered_project) = Range(ExampleModules)
    /\ only_abstract \o Str(".AnAbstract")
         \in DOMAIN DictValue(runs[r].generated, only_abstract).concrete_models
    /\ ReportedFor(runs[r], only_abstract \o Str(".AnAbstract")) = <<>>
    /\ Len(ReportedFor(runs[r], exampleapp \o Str(".Parent"))) = 3

\* The models the module with this import path defines.
DefinedIn(module_import_path) ==
  {p \in DOMAIN ModuleOf : ModuleOf[p] = module_import_path}

EqualButName(s1, s2) ==
  /\ s1.module_import_path = s2.module_import_path
  /\ s1.installed_apps_hash = s2.installed_apps_hash
  /\ s1.significant_info = s2.significant_info

C19_HashChangeChangesEverySummary ==
  \A r1, r2 \in 1..Len(runs) :
    (/\ runs[r1].discovered_project = runs[r2].discovered_project
     /\ runs[r1].installed_apps_hash # runs[r2].installed_apps_hash)
    => /\ DictKeys(runs[r1].generated) = DictKeys(runs[r2].generated)
       /\ DictKeys(runs[r1].generated) = Range(ExampleModules)
       /\ \A k \in DictKeys(runs[r1].generated) :
            /\ DictValue(runs[r1].generated, k).summary
                 # DictValue(runs[r2].generated, k).summary
            /\ DictValue(runs[r1].generated, k).summary.installed_apps_hash
                 = runs[r1].installed_apps_hash

\* The hash changed between two runs over the same project: the summary of
\* exampleapp changed, its concrete models did not.
C19_Witness ==
  /\ Len(runs) = 2
  /\ runs[1].discovered_project = runs[2].discovered_project
  /\ runs[1].installed_apps_hash = Str("__hashed_installed_apps__")
  /\ runs[2].installed_apps_hash = Str("__hashed_other_apps__")
  /\ DictValue(runs[1].generated, exampleapp).summary
       # DictValue(runs[2].generated, exampleapp).summary
  /\ DictValue(runs[1].generated, exampleapp).concrete_models
       = DictValue(runs[2].generated, exampleapp).concrete_models

(***************************************************************************)
(* Claims about the daemon over consecutive runs, over SpecDaemon.         *)
(***************************************************************************)
NamesOf(settings) == { s.name : s \in settings }

TypeOf(settings, name) == (CHOOSE s \in settings : s.name = name).type

NamesOrTypesDiffer(previous, current) ==
  \/ NamesOf(previous) # NamesOf(current)
  \/ \E name \in NamesOf(previous) \cap NamesOf(current) :
       TypeOf(previous, name) # TypeOf(current, name)

ProjectTests == DOMAIN test_projects

NothingChanged ==
  /\ previous_project = <<current_project>>
  /\ previous_settings = <<current_settings>>

InstalledOrConcreteChanged ==
  /\ previous_project # <<>>
  /\ \/ previous_project[1].installed_apps # current_project.installed_apps
     \/ concrete_children(previous_project[1]) # concrete_children(current_project)

AliasesOfReport(getter) ==
  IF getter = "get_concrete_aliases"
    THEN TheReport.concrete_aliases
    ELSE TheReport.queryset_aliases

\* C22: get_concrete_aliases(*models) and get_queryset_aliases(*models)
\* give a mapping whose keys are exactly the models asked for: a model the
\* report has an alias for maps to the name of that alias, any other model
\* maps to None, and none is left out.
C22_LookupKeysAreTheRequestedModels ==
  last_call.hook = "_instances_from_aliases" =>
    /\ DictKeys(last_call.aliases) = Range(last_call.models)
    /\ Len(last_call.aliases) = Cardinality(Range(last_call.models))
    /\ \A m \in Range(last_call.models) :
         DictValue(last_call.aliases, m) =
           IF m \in DictKeys(AliasesOfReport(last_call.getter))
             THEN DictValue(AliasesOfReport(last_call.getter), m)
             ELSE NoAlias

\* Four models were asked for, one of them unknown to the report: it is a
\* key of the mapping, with None for its alias.
C22_Witness ==
  /\ last_call.hook = "_instances_from_aliases"
  /\ last_call.getter = "get_concrete_aliases"
  /\ last_call.models = <<Child1, NotAModel, Unbuilt, Parent>>
  /\ DictValue(last_call.aliases, NotAModel) = NoAlias
  /\ DictValue(last_call.aliases, Parent) = "Concrete__Parent"

\* The last call resolved an annotation for one model, or for type[model].
ResolvedOneModel ==
  /\ last_call.hook \in {"analyze_type", "resolve"}
  /\ last_call.hook = "analyze_type" => Len(last_call.args) = 1
  /\ LET t == IF last_call.hook = "analyze_type" THEN last_call.args[1] ELSE last_call.model_type
     IN  \/ t.kind = "Instance"
         \/ t.kind = "TypeType" /\ t.items[1].kind = "Instance"

ModelTypeOfCall ==
  IF last_call.hook = "analyze_type" THEN last_call.args[1] ELSE last_call.model_type

ModelOfCall ==
  IF ModelTypeOfCall.kind = "TypeType" THEN ModelTypeOfCall.items[1].name ELSE ModelTypeOfCall.name

GetterOfCall ==
  IF last_call.annotation = "CONCRETE" THEN "get_concrete_aliases" ELSE "get_queryset_aliases"

\* The concrete instances found for the model of the last call.
FoundForCall ==
  IF ModelOfCall \in DictKeys(AliasesOfReport(GetterOfCall))
    THEN lookup_alias(Symbols(pending_bound), DictValue(AliasesOfReport(GetterOfCall), ModelOfCall))
    ELSE Yielded(<<>>, "none")

\* type[...] of a resolved annotation, as mypy normalises it: the type of a
\* union is the union of the types of its members.
TypeOfResolved(resolved) ==
  IF resolved.kind = "UnionType"
    THEN UnionType([i \in 1..Len(resolved.items) |-> TypeType(resolved.items[i])])
    ELSE TypeType(resolved)

\* What the test reveals for Concrete[...] and DefaultQuerySet[...] of
\* Parent, Child1 and Child2.
test_simple_annotation(annotation, model) ==
  IF annotation = "CONCRETE"
    THEN IF model = Parent THEN UnionType(ConcreteOfParent) ELSE Instance(model)
    ELSE IF model = Parent
      THEN UnionType(QuerySetsOfParent)
      ELSE IF model = Child1 THEN QuerySetsOfParent[1] ELSE QuerySetsOfParent[2]

RevealedByTest ==
  \/ ModelOfCall \in {Parent, Child1}
  \/ ModelOfCall = Child2 /\ last_call.annotation = "DEFAULT_QUERYSET"

\* C23: resolving Concrete or DefaultQuerySet for a model gives the one
\* concrete instance itself when exactly one is found and the union of all
\* of them, in the order of the alias, when more are found; for type[X]
\* every member is wrapped as type[...], so that Concrete[type[X]] is
\* type[Concrete[X]].  For the models of the test the result is what the
\* test reveals.
C23_OneInstanceOrUnionInAliasOrder ==
  (ResolvedOneModel /\ FoundForCall.raised = "none" /\ FoundForCall.yielded # <<>>) =>
    LET instances == FoundForCall.yielded
        plain == IF Len(instances) = 1 THEN instances[1] ELSE UnionType(instances)
    IN  /\ last_call.out.raised = "none"
        /\ ModelTypeOfCall.kind = "Instance" => last_call.out.value = plain
        /\ ModelTypeOfCall.kind = "TypeType" =>
             /\ last_call.out.value = TypeOfResolved(plain)
             /\ Len(instances) = 1 => last_call.out.value = TypeType(instances[1])
             /\ Len(instances) > 1 =>
                  last_call.out.value =
                    UnionType([i \in 1..Len(instances) |-> TypeType(instances[i])])
        /\ RevealedByTest =>
             last_call.out.value =
               IF ModelTypeOfCall.kind = "TypeType"
                 THEN TypeOfResolved(test_simple_annotation(last_call.annotation, ModelOfCall))
                 ELSE test_simple_annotation(last_call.annotation, ModelOfCall)

\* Concrete[type[Parent]] was analysed: the union of the types of the four
\* children, in the order of the alias.
C23_Witness ==
  /\ last_call.hook = "analyze_type"
  /\ last_call.args = <<TypeType(Instance(Parent))>>
  /\ last_call.annotation = "CONCRETE"
  /\ last_call.out.value.kind = "UnionType"
  /\ Len(last_call.out.value.items) = Len(ConcreteOfParent)
  /\ last_call.out.value.items[1] = TypeType(Instance(Child1))

CastCall == last_call.hook = "transform_cast_as_concrete"

CanOnlyTakeNames == Fail("cast_as_concrete can only take variable names.", <<>>)

\* C24: cast_as_concrete takes a plain variable name only: for any other
\* expression it reports 'cast_as_concrete can only take variable names...'
\* and installs no cast; for the name of a variable that is a model or the
\* type of one it casts to the concrete union, and a variable that was only
\* passed in, the result going to another name, keeps its declared type.
C24_CastTakesVariableNamesOnly ==
  (CastCall /\ Len(last_call.args) = 1) =>
    /\ last_call.args[1].kind # "NameExpr" =>
         /\ last_call.out.fails = <<CanOnlyTakeNames>>
         /\ last_call.out.cast = None
         /\ last_call.types_after = Scope
    /\ last_call.args[1].kind = "NameExpr" =>
         /\ CanOnlyTakeNames \notin Range(last_call.out.fails)
         /\ last_call.args[1].name \in {"cls", "instance", "child"} =>
              /\ last_call.out.cast # None
              /\ last_call.out.cast.name = last_call.args[1].name
              /\ last_call.out.cast.items[1] =
                   resolve(SemResolver(TRUE), "CONCRETE", Scope[last_call.args[1].name]).value
              /\ last_call.types_after[last_call.name] = last_call.out.cast.items[1]
         /\ (last_call.args[1].name \in DOMAIN Scope /\ last_call.args[1].name # last_call.name) =>
              last_call.types_after[last_call.args[1].name] = Scope[last_call.args[1].name]

\* found = Concrete.cast_as_concrete(cls): found is the union of the types
\* of the children and cls is type[Parent] as before.
C24_Witness ==
  /\ CastCall
  /\ last_call.name = "found"
  /\ last_call.args = <<NameExpr("cls")>>
  /\ last_call.types_after["found"] = TypeOfResolved(UnionType(ConcreteOfParent))
  /\ last_call.types_after["cls"] = TypeType(Instance(Parent))

\* The last call asked _concrete_for for a model whose alias gave no instance.
NoConcreteFound ==
  /\ ResolvedOneModel
  /\ FoundForCall.raised # "ShouldDefer"
  /\ FoundForCall.yielded = <<>>

\* The defer function of the last call's resolver would return True.
UnableToDefer == last_call.hook = "resolve" \/ sem_final_iteration

NoConcreteModelsReported ==
  \E i \in 1..Len(last_call.out.fails) :
    last_call.out.fails[i] = Fail("No concrete models found for", <<ModelOfCall>>)

\* C25: when _concrete_for finds no concrete instance, 'No concrete models
\* found for ...' is reported only when deferral is not possible (final
\* iteration, or a context of the type checker); when the analysis can be
\* deferred it is deferred and nothing is reported on that pass.
C25_ReportedOnlyWhenUnableToDefer ==
  NoConcreteFound =>
    /\ NoConcreteModelsReported => UnableToDefer
    /\ ~UnableToDefer => (last_call.out.deferred /\ ~NoConcreteModelsReported)

\* Concrete[Unbuilt] analysed on a pass that is not the final one: the pass
\* is deferred and the error is reported on it all the same.
C25_ReportedOnADeferredPass ==
  /\ NoConcreteFound
  /\ ModelTypeOfCall = Instance(Unbuilt)
  /\ last_call.annotation = "CONCRETE"
  /\ ~UnableToDefer
  /\ last_call.out.deferred
  /\ NoConcreteModelsReported


\* The last call was Concrete.type_var with two arguments and a usable name.
TypeVarCall ==
  /\ last_call.hook = "transform_type_var_classmethod"
  /\ last_call.ctx.n_args = 2
  /\ last_call.ctx.name_ok

FailedToLocate == Fail("Failed to locate the model provided to to make", <<last_call.ctx.name>>)

\* C26: while the model given to Concrete.type_var is not resolved to a
\* class, a pass defers (not the final iteration) or reports 'Failed to
\* locate the model provided...' (the final iteration) and writes no symbol;
\* on every pass where the model is resolved the module's symbol of the type
\* var is written anew with a freshly built TypeVarExpr, over the one of an
\* earlier pass.  So a call on the final iteration ends with a defined type
\* var or with a reported failure.
C26_DeferOrFailUntilResolvedThenRewrite ==
  TypeVarCall =>
    /\ last_call.ctx.parent_type.kind # "Instance" =>
         /\ ~last_call.out.wrote
         /\ last_call.out.names = last_call.names_before
         /\ module_names = last_call.names_before
         /\ sem_final_iteration =>
              (last_call.out.fails = <<FailedToLocate>> /\ ~last_call.out.deferred)
         /\ ~sem_final_iteration =>
              (last_call.out.fails = <<>> /\ last_call.out.deferred)
    /\ last_call.ctx.parent_type.kind = "Instance" =>
         /\ last_call.out.wrote
         /\ ~last_call.out.deferred
         /\ FailedToLocate \notin Range(last_call.out.fails)
         /\ last_call.ctx.name \in DictKeys(module_names)
         /\ DictValue(module_names, last_call.ctx.name) =
              type_var_expr_for(SemResolver(TRUE), last_call.ctx.parent_type.name,
                                last_call.ctx.name,
                                <<last_call.ctx.cur_mod_id, last_call.ctx.name>>).value
    /\ sem_final_iteration =>
         \/ last_call.ctx.name \in DictKeys(module_names)
         \/ FailedToLocate \in Range(last_call.out.fails)

\* The type var was made without values on an earlier pass, while the alias
\* of its model was a placeholder, and this pass writes it with its values.
C26_Witness ==
  /\ TypeVarCall
  /\ last_call.ctx.parent_type = Instance(Pending)
  /\ last_call.ctx.name \in DictKeys(last_call.names_before)
  /\ DictValue(last_call.names_before, last_call.ctx.name).values = <<>>
  /\ DictValue(module_names, last_call.ctx.name).values = <<Instance("myapp.models.PendingChild")>>

\* The last call of Concrete.type_var reached type_var_expr_for.
TypeVarExprCall == TypeVarCall /\ last_call.ctx.parent_type.kind = "Instance"

ModelOfTypeVar == last_call.ctx.parent_type.name

\* The type var the last call wrote.
TypeVarWritten == DictValue(module_names, last_call.ctx.name)

\* What the lookup of the alias of the type var's model gives.
AliasOfTypeVar ==
  IF ModelOfTypeVar \in DictKeys(AliasesOfReport("get_concrete_aliases"))
    THEN DictValue(AliasesOfReport("get_concrete_aliases"), ModelOfTypeVar)
    ELSE NoAlias

FoundForTypeVar ==
  IF AliasOfTypeVar = NoAlias
    THEN Yielded(<<>>, "none")
    ELSE lookup_alias(Symbols(pending_bound), AliasOfTypeVar)

NoConcreteChildren == Fail("No concrete children found for", <<ModelOfTypeVar>>)

\* C27: type_var_expr_for always returns a TypeVarExpr with the given name
\* and fullname; when the lookup of the alias signals ShouldDefer the values
\* are empty and no failure is reported; when the lookup completes without
\* values 'No concrete children found for <model>' is reported; otherwise
\* the values are the concrete instances of the model's alias in order.
C27_TypeVarExprAlwaysReturned ==
  TypeVarExprCall =>
    /\ TypeVarWritten.name = last_call.ctx.name
    /\ TypeVarWritten.fullname = <<last_call.ctx.cur_mod_id, last_call.ctx.name>>
    /\ FoundForTypeVar.raised = "ShouldDefer" =>
         /\ TypeVarWritten.values = <<>>
         /\ last_call.out.fails = <<>>
    /\ (FoundForTypeVar.raised # "ShouldDefer" /\ FoundForTypeVar.yielded = <<>>) =>
         /\ TypeVarWritten.values = <<>>
         /\ NoConcreteChildren \in Range(last_call.out.fails)
    /\ (FoundForTypeVar.raised # "ShouldDefer" /\ FoundForTypeVar.yielded # <<>>) =>
         /\ TypeVarWritten.values = FoundForTypeVar.yielded
         /\ NoConcreteChildren \notin Range(last_call.out.fails)

\* T_Child = Concrete.type_var("T_Child", Pending) while the alias of
\* Pending is a placeholder: a type var without values and no failure.
C27_Witness ==
  /\ TypeVarExprCall
  /\ ModelOfTypeVar = Pending
  /\ ~pending_bound
  /\ TypeVarWritten = TypeVarExpr("T_Child", <<"main", "T_Child">>, <<>>)
  /\ last_call.out.fails = <<>>

\* The last call went through resolve or type_var_expr_for for a model whose
\* alias is still a placeholder.
LookupOfPlaceholder ==
  /\ ~pending_bound
  /\ \/ last_call.hook = "resolve" /\ last_call.model_type = Instance(Pending)
                                   /\ last_call.annotation = "CONCRETE"
     \/ TypeVarExprCall /\ ModelOfTypeVar = Pending

\* C28: a ShouldDefer raised by lookup_alias never escapes a public method
\* of AnnotationResolver: resolve (called by a hook of the type checker, by
\* analyze_type or by transform_cast_as_concrete) and type_var_expr_for both
\* return a value instead of raising it.
C28_ShouldDeferNeverEscapes ==
  /\ last_call.hook = "resolve" => last_call.out.raised # "ShouldDefer"
  /\ last_call.hook = "analyze_type" => last_call.out.raised # "ShouldDefer"
  /\ last_call.hook = "transform_cast_as_concrete" => last_call.out.raised # "ShouldDefer"
  /\ TypeVarExprCall =>
       type_var_expr_for(SemResolver(TRUE), ModelOfTypeVar, last_call.ctx.name,
                         <<last_call.ctx.cur_mod_id, last_call.ctx.name>>).raised # "ShouldDefer"

\* resolve(CONCRETE, Pending) while the alias of Pending is a placeholder:
\* the call ends by raising ShouldDefer.
C28_ResolveRaisesShouldDefer ==
  /\ LookupOfPlaceholder
  /\ last_call.hook = "resolve"
  /\ last_call.out.raised = "ShouldDefer"

AnalyzeCall == last_call.hook = "analyze_type"

\* The arguments of ModelTypes that involve a type var of the user: the
\* type var itself, type[...] of it, and unions with it one and two deep.
InvolveTypeVar ==
  { T_Child, TypeType(T_Child),
    UnionType(<<Instance(Child1), TypeType(T_Child)>>),
    UnionType(<<Instance(Child1), UnionType(<<NoneType, T_Child>>)>>),
    TypeType(UnionType(<<Instance(Child1), T_Child>>)) }

PluginTypeVar == {TypeVarType(T_Parent), TypeType(TypeVarType(T_Parent))}

OriginalType == CtxType(last_call.annotation, last_call.args)

RewrappedType ==
  UnboundType("__ConcreteWithTypeVar__",
              <<[kind |-> "Instance", name |-> AnnotationValue(last_call.annotation),
                 items |-> last_call.args]>>)

InstancesCall == last_call.hook = "_instances_from_aliases"

\* What one model of the last call gives by itself.
RECURSIVE EachModelAlone(_)
EachModelAlone(items) ==
  IF items = <<>>
    THEN <<>>
    ELSE <<_instances_from_aliases(CheckerResolver, last_call.getter, <<Head(items).key>>)>>
           \o EachModelAlone(Tail(items))

RECURSIVE YieldedInTurn(_)
YieldedInTurn(each) ==
  IF each = <<>> THEN <<>> ELSE Head(each).yielded \o YieldedInTurn(Tail(each))

RECURSIVE FailsInTurn(_)
FailsInTurn(each) ==
  IF each = <<>> THEN <<>> ELSE Head(each).fails \o FailsInTurn(Tail(each))

\* The failures of the last call that name the model.
FailuresNaming(model) ==
  SelectSeq(last_call.out.fails, LAMBDA f : f.about # <<>> /\ f.about[1] = model)

\* C30: _instances_from_aliases processes every requested model by itself:
\* a model whose alias is None, or whose alias fails an assertion when
\* looked up, gives one reported failure that names the model and does not
\* stop the instances of the other models from being yielded; a model whose
\* alias is a union yields the members in the union's order.
C30_EveryModelIsProcessedIndependently ==
  (InstancesCall /\ last_call.out.raised = "none") =>
    /\ last_call.out.yielded = YieldedInTurn(EachModelAlone(last_call.aliases))
    /\ last_call.out.fails = FailsInTurn(EachModelAlone(last_call.aliases))
    /\ \A i \in 1..Len(last_call.aliases) :
         LET model == last_call.aliases[i].key
             alias == last_call.aliases[i].value
             sym == IF alias = NoAlias THEN NoSymbol
                    ELSE plugin_lookup_fully_qualified(Symbols(pending_bound), alias)
         IN  /\ alias = NoAlias =>
                  FailuresNaming(model) = <<Fail("Failed to find concrete alias instance for", <<model>>)>>
             /\ (alias # NoAlias /\ lookup_alias(Symbols(pending_bound), alias).raised = "AssertionError") =>
                  FailuresNaming(model) = <<Fail("Failed to create concrete alias instance for", <<model, alias>>)>>
             /\ (alias # NoAlias /\ sym.kind = "TypeAlias" /\ sym.target.kind = "UnionType"
                   /\ \A k \in 1..Len(sym.target.items) : sym.target.items[k].kind = "Instance") =>
                  _instances_from_aliases(CheckerResolver, last_call.getter, <<model>>).yielded = sym.target.items

\* Child1, int, Unbuilt, Parent: int has no alias and the alias of Unbuilt
\* has no symbol; two failures, and Child1 and the children of Parent are
\* yielded in order.
C30_Witness ==
  /\ InstancesCall
  /\ last_call.getter = "get_concrete_aliases"
  /\ last_call.models = <<Child1, NotAModel, Unbuilt, Parent>>
  /\ last_call.out.yielded = <<Instance(Child1)>> \o ConcreteOfParent
  /\ Len(last_call.out.fails) = 2
=============================================================================
